---- MODULE Spec2Model ----
(***************************************************************************)
(* Behaviour-tree runtime (cornerstone): the tick / halt state machine of  *)
(* the node wrappers and of the composite and decorator kinds.             *)
(*                                                                         *)
(* A run builds one tree (drawn in Init) and then drives its root with     *)
(* tick(), halt() and reset_status() calls.  What the user-defined action  *)
(* leaves return is an input of every tick (the oracle o).                 *)
(***************************************************************************)
EXTENDS Integers, Sequences, FiniteSets, TLC

\* Largest number of children of the composites built in Init (the Parallel of
\* the three-children scenario is built besides).
MaxChildren == 2

\* Repeat.repeat_count is never reset and grows with every completed inner tick:
\* no tick is taken once a Repeat has counted this many.
MaxRepeatCount == 4

\* The number of tick() calls since construction is recorded up to this many.
MaxTicks == 4

\* Largest number of entries (stored values and remappings together) that the
\* Blackboards of one run hold.
MaxEntries == 3

\* Deepest nesting of create_tree_node_recursively calls that the stack holds.
MaxBuildDepth == 6

\* Most receivers on one node's channel, most sends on it that are followed,
\* and the latest reading of the system clock.
MaxObservers == 1
MaxVersion == 2
MaxClock == 2

\* Most nodes of a tree fed to the builder element by element.
MaxFeed == 65537

----------------------------------------------------------------------------
\* NodeStatus (lib.rs): Idle is the default.
Idle == "Idle"
Running == "Running"
Success == "Success"
Failure == "Failure"
NodeStatus == {Idle, Running, Success, Failure}

is_completed(s) == s = Success \/ s = Failure

\* What an action's tick_status may hand back to the composites' match arms.
ActionResults == {Success, Failure, Running}

\* Option<T>: None is the empty tuple, Some(x) the one-element tuple.
None == <<>>
Some(x) == <<x>>
unwrap_or(opt, d) == IF opt = None THEN d ELSE opt[1]

CompositeKinds == {"Sequence", "Fallback", "Parallel"}
DecoratorKinds ==
  {"ForceSuccess", "ForceFailure", "Inverter", "Repeat", "RetryUntilSuccessful"}

PARALLEL_SUCCESS_COUNT == "success_count"
PARALLEL_FAILURE_COUNT == "failure_count"
NUM_CYCLES == "num_cycles"
NUM_ATTEMPTS == "num_attempts"
PortNames == {PARALLEL_SUCCESS_COUNT, PARALLEL_FAILURE_COUNT, NUM_CYCLES, NUM_ATTEMPTS}

\* str::parse::<usize> on the port strings of the model ("x" is no number).
ParseUsize(s) ==
  CASE s = "0" -> Some(0)
    [] s = "1" -> Some(1)
    [] s = "2" -> Some(2)
    [] s = "3" -> Some(3)
    [] OTHER -> None

----------------------------------------------------------------------------
\* Tree shapes.  A tree is a sequence of node records, node 1 is the root;
\* children are node ids in declaration order.
NoPorts == [p \in PortNames |-> None]

ActionNode == [kind |-> "Action", children |-> <<>>, ports |-> NoPorts]

LeafTree == <<ActionNode>>

\* A composite whose n children are action leaves.
FlatTree(kind, n, ports) ==
  <<[kind |-> kind, children |-> [i \in 1..n |-> i + 1], ports |-> ports]>>
    \o [i \in 1..n |-> ActionNode]

\* A decorator around the tree inner (add_child / DecoratorWrapper::new).
DecoTree(kind, inner) ==
  <<[kind |-> kind, children |-> <<2>>, ports |-> NoPorts]>>
    \o [i \in 1..Len(inner) |->
          [inner[i] EXCEPT !.children = [j \in DOMAIN @ |-> @[j] + 1]]]

\* The (success_count, failure_count) attribute pairs of the Parallel elements.
ParallelAttrs ==
  {<<None, None>>, <<Some("1"), Some("2")>>, <<Some("2"), Some("1")>>,
   <<Some("0"), Some("x")>>, <<Some("2"), None>>}

ParallelPorts ==
  {[p \in PortNames |->
      CASE p = PARALLEL_SUCCESS_COUNT -> a[1]
        [] p = PARALLEL_FAILURE_COUNT -> a[2]
        [] OTHER -> None] :
     a \in ParallelAttrs}

\* <Parallel success_count="1" failure_count="2"><A/><B/><C/></Parallel>
ScenarioParallel ==
  FlatTree("Parallel", 3,
           [p \in PortNames |->
              CASE p = PARALLEL_SUCCESS_COUNT -> Some("1")
                [] p = PARALLEL_FAILURE_COUNT -> Some("2")
                [] OTHER -> None])

\* The tree t with the attribute key="value" on its root element.
WithPort(t, key, value) == [t EXCEPT ![1].ports[key] = Some(value)]

\* <Repeat num_cycles="3"><A/></Repeat>
ScenarioRepeat == WithPort(DecoTree("Repeat", LeafTree), NUM_CYCLES, "3")

\* The trees with an Inverter, a Repeat or a RetryUntilSuccessful.
CountingTrees ==
  {DecoTree("Inverter", LeafTree),
   DecoTree("Inverter", DecoTree("Inverter", LeafTree)),
   DecoTree("Inverter", DecoTree("Inverter", FlatTree("Fallback", 2, NoPorts))),
   DecoTree("Repeat", LeafTree),
   DecoTree("RetryUntilSuccessful", LeafTree),
   WithPort(DecoTree("Repeat", FlatTree("Sequence", 2, NoPorts)), NUM_CYCLES, "2")}
    \cup {WithPort(DecoTree("Repeat", LeafTree), NUM_CYCLES, v) :
            v \in {"0", "1", "2", "3", "x"}}
    \cup {WithPort(DecoTree("RetryUntilSuccessful", LeafTree), NUM_ATTEMPTS, v) :
            v \in {"0", "1", "2", "3", "x"}}

Trees ==
  {LeafTree}
    \cup CountingTrees
    \cup {FlatTree(k, n, NoPorts) : k \in {"Sequence", "Fallback"}, n \in 0..MaxChildren}
    \cup {FlatTree("Parallel", n, p) : n \in 0..MaxChildren, p \in ParallelPorts}
    \cup {DecoTree(d, LeafTree) : d \in DecoratorKinds}
    \cup {ScenarioParallel,
          DecoTree("ForceSuccess", FlatTree("Sequence", 2, NoPorts)),
          DecoTree("ForceFailure", FlatTree("Parallel", 2, NoPorts)),
          DecoTree("ForceSuccess", DecoTree("ForceFailure", LeafTree))}

----------------------------------------------------------------------------
VARIABLES
  tree,               \* the built tree (fixed after construction)
  status,             \* DataProxy.status of every node
  current_child_idx,  \* Sequence.current_child_idx
  success_count,      \* Parallel.success_count
  failure_count,      \* Parallel.failure_count
  completed_list,     \* Parallel.completed_list (0-based child indices)
  repeat_count,       \* Repeat.repeat_count
  try_count,          \* Retry.try_count
  blackboards,        \* the Blackboards created so far, in creation order
  dropped,            \* the Blackboards whose last Arc has been dropped
  got,                \* the last lookup made and what it returned
  xml,                \* the XML text handed to the builder
  built,              \* what create_bt_tree_from_xml_str returned for it
  feed,               \* a build in progress, element by element
  watch,              \* DataProxy.state_observer of every node: the watch
                      \* channel's receivers, its value and its version
  clock,              \* what chrono::Utc::now().timestamp_millis() returns
  last                \* the last call made on the root and what it did
                      \* (halts: how many halt() calls in a row it ends, up to 2;
                      \* ticks: how many tick() calls were made, up to MaxTicks;
                      \* allSuccess: every action of every tick returned Success)

treeVars == <<tree, status, current_child_idx, success_count, failure_count,
              completed_list, repeat_count, try_count, watch, clock, last>>
bbVars == <<blackboards, dropped, got>>
buildVars == <<xml, built, feed>>
vars == <<treeVars, bbVars, buildVars>>

Nodes == 1..Len(tree)
Root == 1
Kind(n) == tree[n].kind
Children(n) == tree[n].children
Leaves == {n \in Nodes : Kind(n) = "Action"}

\* The mutable fields of all nodes, as one record threaded through a call.
Prog ==
  [status |-> status,
   current_child_idx |-> current_child_idx,
   success_count |-> success_count,
   failure_count |-> failure_count,
   completed_list |-> completed_list,
   repeat_count |-> repeat_count,
   try_count |-> try_count,
   watch |-> watch]

\* Observation of one call: which nodes were ticked in which order, the status
\* each had when tick() was entered, when its tick_status began and when
\* tick() returned, what tick() returned, and whose halt hook ran.
NoObs ==
  [order |-> <<>>,
   atEntry |-> [n \in Nodes |-> "none"],
   atBody |-> [n \in Nodes |-> "none"],
   atReturn |-> [n \in Nodes |-> "none"],
   rets |-> [n \in Nodes |-> "none"],
   kidsIdle |-> [n \in Nodes |-> TRUE],
   halted |-> {}]

\* later: what an action returns when it is ticked again during the same call.
Begin(p) == [p |-> p, obs |-> NoObs, later |-> <<>>]

\* The uid the builder gives to node n: nodes are numbered in document
\* order, the counter starts at 0.
Uid(n) == n - 1

\* StateNotif::default()
StateNotif_default ==
  [ts |-> 0, uid |-> 0, prev_status |-> Idle, new_status |-> Idle]

\* watch::channel(StateNotif::default()) with its receiver dropped
\* (DataProxy::new_with_uid); earlier_ts is the ts of the value that the last
\* send replaced.
watch_channel ==
  [receiver_count |-> 0, value |-> StateNotif_default, version |-> 0,
   earlier_ts |-> 0]

\* The fields as the constructors leave them (NodeStatus::default, 0, empty).
InitProg ==
  [status |-> [n \in Nodes |-> Idle],
   current_child_idx |-> [n \in Nodes |-> 0],
   success_count |-> [n \in Nodes |-> 0],
   failure_count |-> [n \in Nodes |-> 0],
   completed_list |-> [n \in Nodes |-> {}],
   repeat_count |-> [n \in Nodes |-> 0],
   try_count |-> [n \in Nodes |-> 0],
   watch |-> [n \in Nodes |-> watch_channel]]

----------------------------------------------------------------------------
\* watch::Sender::send: the value is stored and the version goes up.
watch_send(w, value) ==
  [w EXCEPT !.value = value, !.version = @ + 1, !.earlier_ts = w.value.ts]

\* Faulty variant of DataProxy_set_status: a notification is sent on every call.
DataProxy_set_status_AlwaysSends(st, n, new_status) ==
  LET notif == [ts |-> clock, uid |-> Uid(n),
                prev_status |-> st.p.status[n], new_status |-> new_status]
  IN [st EXCEPT !.p.status[n] = new_status,
                !.p.watch[n] = watch_send(@, notif)]

\* DataProxy::set_status: on a change, and with a receiver on the channel, a
\* StateNotif is sent; the status field takes the new value.
DataProxy_set_status(st, n, new_status) ==
  LET notif == [ts |-> clock, uid |-> Uid(n),
                prev_status |-> st.p.status[n], new_status |-> new_status]
      sends == /\ new_status # st.p.status[n]
               /\ st.p.watch[n].receiver_count > 0
  IN [st EXCEPT !.p.status[n] = new_status,
                !.p.watch[n] = IF sends THEN watch_send(@, notif) ELSE @]

\* DataProxy::get_string_parsed::<usize>, as Parallel::tick calls it: None when
\* the port is absent or its string is no number, else the number.
get_string_parsed(n, key) ==
  IF tree[n].ports[key] = None THEN None ELSE ParseUsize(tree[n].ports[key][1])

RECURSIVE tick(_, _, _)
RECURSIVE Sequence_loop(_, _, _, _)
RECURSIVE Selector_loop(_, _, _, _)
RECURSIVE Parallel_loop(_, _, _, _, _, _)
RECURSIVE Retry_loop(_, _, _, _)

\* How often node c was ticked during a call with observation obs.
TimesTicked(obs, c) == Cardinality({j \in DOMAIN obs.order : obs.order[j] = c})

\* ActionWrapper::tick
ActionWrapper_tick(n, st, o) ==
  LET s1 == IF st.p.status[n] = Idle THEN DataProxy_set_status(st, n, Running) ELSE st
      s2 == [s1 EXCEPT !.obs.atBody[n] = s1.p.status[n]]
      new_status == IF TimesTicked(st.obs, n) > 1 THEN st.later[n] ELSE o[n]
  IN [st |-> DataProxy_set_status(s2, n, new_status), res |-> new_status]

\* Faulty variant of Sequence_loop: a Success of a child does not advance
\* current_child_idx.
Sequence_loop_NoAdvance(n, i, st, o) ==
  IF i >= Len(Children(n)) THEN [st |-> st, res |-> Success]
  ELSE LET r == tick(Children(n)[i + 1], st, o) IN
       CASE r.res = Failure -> [st |-> r.st, res |-> Failure]
         [] r.res = Running -> [st |-> r.st, res |-> Running]
         [] OTHER -> Sequence_loop(n, i + 1, r.st, o)

\* Sequence::tick, the body of `for node in child_nodes.iter_mut().skip(from)`;
\* i is the 0-based position of the next child.
Sequence_loop(n, i, st, o) ==
  IF i >= Len(Children(n)) THEN [st |-> st, res |-> Success]
  ELSE LET r == tick(Children(n)[i + 1], st, o) IN
       CASE r.res = Failure -> [st |-> r.st, res |-> Failure]
         [] r.res = Running -> [st |-> r.st, res |-> Running]
         [] OTHER ->
              Sequence_loop(n, i + 1,
                            [r.st EXCEPT !.p.current_child_idx[n] = @ + 1], o)

Sequence_tick(n, st, o) == Sequence_loop(n, st.p.current_child_idx[n], st, o)

\* Faulty variant of Selector_loop: the Failure arm returns instead of going on to
\* the next child.
Selector_loop_StopsAtFailure(n, i, st, o) ==
  IF i >= Len(Children(n)) THEN [st |-> st, res |-> Failure]
  ELSE LET r == tick(Children(n)[i + 1], st, o) IN
       CASE r.res = Success -> [st |-> r.st, res |-> Success]
         [] r.res = Running -> [st |-> r.st, res |-> Running]
         [] OTHER -> [st |-> r.st, res |-> Failure]

\* Selector::tick (registered as "Fallback"): no state, every tick starts at
\* the first child.
Selector_loop(n, i, st, o) ==
  IF i >= Len(Children(n)) THEN [st |-> st, res |-> Failure]
  ELSE LET r == tick(Children(n)[i + 1], st, o) IN
       CASE r.res = Success -> [st |-> r.st, res |-> Success]
         [] r.res = Running -> [st |-> r.st, res |-> Running]
         [] OTHER -> Selector_loop(n, i + 1, r.st, o)

Selector_tick(n, st, o) == Selector_loop(n, 0, st, o)

\* Faulty variant of Parallel_loop: the thresholds are compared once, after the loop
\* over the children, instead of after each completed child.
Parallel_loop_ChecksAtEnd(n, i, st, o, success_threshold, failure_threshold) ==
  IF i >= Len(Children(n))
  THEN IF st.p.success_count[n] >= success_threshold
       THEN [st |-> st, res |-> Success]
       ELSE IF st.p.failure_count[n] >= failure_threshold
       THEN [st |-> st, res |-> Failure]
       ELSE [st |-> st, res |-> Running]
  ELSE IF i \in st.p.completed_list[n]
  THEN Parallel_loop(n, i + 1, st, o, success_threshold, failure_threshold)
  ELSE LET r == tick(Children(n)[i + 1], st, o) IN
       IF r.res = Running
       THEN Parallel_loop(n, i + 1, r.st, o, success_threshold, failure_threshold)
       ELSE LET s1 == IF r.res = Failure
                      THEN [r.st EXCEPT !.p.failure_count[n] = @ + 1]
                      ELSE [r.st EXCEPT !.p.success_count[n] = @ + 1]
                s2 == [s1 EXCEPT !.p.completed_list[n] = @ \cup {i}]
            IN Parallel_loop(n, i + 1, s2, o, success_threshold, failure_threshold)

\* Parallel::tick, the body of `for i in 0..children_count`.
Parallel_loop(n, i, st, o, success_threshold, failure_threshold) ==
  IF i >= Len(Children(n)) THEN [st |-> st, res |-> Running]
  ELSE IF i \in st.p.completed_list[n]
  THEN Parallel_loop(n, i + 1, st, o, success_threshold, failure_threshold)
  ELSE LET r == tick(Children(n)[i + 1], st, o) IN
       IF r.res = Running
       THEN Parallel_loop(n, i + 1, r.st, o, success_threshold, failure_threshold)
       ELSE LET s1 == IF r.res = Failure
                      THEN [r.st EXCEPT !.p.failure_count[n] = @ + 1]
                      ELSE [r.st EXCEPT !.p.success_count[n] = @ + 1]
                s2 == [s1 EXCEPT !.p.completed_list[n] = @ \cup {i}]
            IN IF s2.p.success_count[n] >= success_threshold
               THEN [st |-> s2, res |-> Success]
               ELSE IF s2.p.failure_count[n] >= failure_threshold
               THEN [st |-> s2, res |-> Failure]
               ELSE Parallel_loop(n, i + 1, s2, o,
                                  success_threshold, failure_threshold)

\* Faulty variant of Parallel_tick: the completed set is emptied at the
\* beginning of every tick.
Parallel_tick_ForgetsCompleted(n, st, o) ==
  LET children_count == Len(Children(n))
      success_threshold ==
        unwrap_or(get_string_parsed(n, PARALLEL_SUCCESS_COUNT),
                  unwrap_or(None, children_count))
      failure_threshold ==
        unwrap_or(get_string_parsed(n, PARALLEL_FAILURE_COUNT),
                  unwrap_or(None, children_count))
  IN IF children_count = 0 THEN [st |-> st, res |-> Failure]
     ELSE Parallel_loop(n, 0, [st EXCEPT !.p.completed_list[n] = {}], o,
                        success_threshold, failure_threshold)

\* Parallel::tick; the struct's own success_threshold / failure_threshold are
\* None for every tree the factory builds (Parallel::default).
Parallel_tick(n, st, o) ==
  LET children_count == Len(Children(n))
      success_threshold ==
        unwrap_or(get_string_parsed(n, PARALLEL_SUCCESS_COUNT),
                  unwrap_or(None, children_count))
      failure_threshold ==
        unwrap_or(get_string_parsed(n, PARALLEL_FAILURE_COUNT),
                  unwrap_or(None, children_count))
  IN IF children_count = 0 THEN [st |-> st, res |-> Failure]
     ELSE Parallel_loop(n, 0, st, o, success_threshold, failure_threshold)

\* CompositeWrapper::tick: hands over to the kind's tick_status and returns
\* what it returns; the wrapper's own data_proxy is not written.
CompositeWrapper_tick(n, st, o) ==
  LET s1 == [st EXCEPT !.obs.atBody[n] = st.p.status[n]] IN
  CASE Kind(n) = "Sequence" -> Sequence_tick(n, s1, o)
    [] Kind(n) = "Fallback" -> Selector_tick(n, s1, o)
    [] OTHER -> Parallel_tick(n, s1, o)

\* ForceSuccessImpl::tick_status / ForceSuccess::tick
\* Faulty variant of ForceSuccess_tick: only a Success of the inner node
\* becomes Success, a Failure is passed on.
ForceSuccess_tick_PassesFailure(n, st, o) ==
  tick(Children(n)[1], st, o)

ForceSuccess_tick(n, st, o) ==
  LET r == tick(Children(n)[1], st, o) IN
  IF r.res = Running THEN r ELSE [st |-> r.st, res |-> Success]

\* ForceFailure::tick
ForceFailure_tick(n, st, o) ==
  LET r == tick(Children(n)[1], st, o) IN
  IF r.res = Running THEN r ELSE [st |-> r.st, res |-> Failure]

\* Faulty variant of Inverter_tick: a Failure of the inner node is passed on
\* instead of being turned into Success.
Inverter_tick_KeepsFailure(n, st, o) ==
  LET r == tick(Children(n)[1], st, o) IN
  CASE r.res = Running -> r
    [] r.res = Failure -> [st |-> r.st, res |-> Failure]
    [] OTHER -> [st |-> r.st, res |-> Failure]

\* Inverter::tick
Inverter_tick(n, st, o) ==
  LET r == tick(Children(n)[1], st, o) IN
  CASE r.res = Running -> r
    [] r.res = Failure -> [st |-> r.st, res |-> Success]
    [] OTHER -> [st |-> r.st, res |-> Failure]

\* Faulty variant of Repeat_tick: the count is compared before it is
\* incremented, so the inner status is handed up one tick late.
Repeat_tick_ComparesBeforeIncrement(n, st, o) ==
  LET num_cycles == unwrap_or(get_string_parsed(n, NUM_CYCLES), 0) IN
  IF num_cycles = 0 THEN [st |-> st, res |-> Success]
  ELSE LET r == tick(Children(n)[1], st, o) IN
       IF is_completed(r.res)
       THEN LET s1 == [r.st EXCEPT !.p.repeat_count[n] = @ + 1] IN
            IF r.st.p.repeat_count[n] = num_cycles
            THEN [st |-> s1, res |-> r.res]
            ELSE [st |-> s1, res |-> Running]
       ELSE r

\* Repeat::tick; the struct's own num_cycles is 0 for every Repeat that
\* Decorator::new builds.
Repeat_tick(n, st, o) ==
  LET num_cycles == unwrap_or(get_string_parsed(n, NUM_CYCLES), 0) IN
  IF num_cycles = 0 THEN [st |-> st, res |-> Success]
  ELSE LET r == tick(Children(n)[1], st, o) IN
       IF is_completed(r.res)
       THEN LET s1 == [r.st EXCEPT !.p.repeat_count[n] = @ + 1] IN
            IF s1.p.repeat_count[n] = num_cycles
            THEN [st |-> s1, res |-> r.res]
            ELSE [st |-> s1, res |-> Running]
       ELSE r

\* Retry::tick, the loop `while self.try_count <= num_attempts`.
Retry_loop(n, st, o, num_attempts) ==
  IF st.p.try_count[n] <= num_attempts
  THEN LET r == tick(Children(n)[1], st, o) IN
       IF r.res = Failure
       THEN Retry_loop(n, [r.st EXCEPT !.p.try_count[n] = @ + 1], o, num_attempts)
       ELSE r
  ELSE [st |-> st, res |-> Failure]

\* Retry::tick (registered as "RetryUntilSuccessful")
Retry_tick(n, st, o) ==
  LET num_attempts == unwrap_or(get_string_parsed(n, NUM_ATTEMPTS), 1) IN
  Retry_loop(n, st, o, num_attempts)

\* DecoratorWrapper::tick: as CompositeWrapper::tick.
DecoratorWrapper_tick(n, st, o) ==
  LET s1 == [st EXCEPT !.obs.atBody[n] = st.p.status[n]] IN
  CASE Kind(n) = "ForceSuccess" -> ForceSuccess_tick(n, s1, o)
    [] Kind(n) = "ForceFailure" -> ForceFailure_tick(n, s1, o)
    [] Kind(n) = "Inverter" -> Inverter_tick(n, s1, o)
    [] Kind(n) = "Repeat" -> Repeat_tick(n, s1, o)
    [] OTHER -> Retry_tick(n, s1, o)

\* TreeNodeWrapper::tick: dispatch on the variant.
tick(n, st, o) ==
  LET s1 == [st EXCEPT !.obs.order = Append(@, n),
                       !.obs.atEntry[n] = st.p.status[n]]
      r == CASE Kind(n) = "Action" -> ActionWrapper_tick(n, s1, o)
             [] Kind(n) \in CompositeKinds -> CompositeWrapper_tick(n, s1, o)
             [] OTHER -> DecoratorWrapper_tick(n, s1, o)
  IN [res |-> r.res,
      st |-> [r.st EXCEPT
                !.obs.rets[n] = r.res,
                !.obs.atReturn[n] = r.st.p.status[n],
                !.obs.kidsIdle[n] =
                   \A i \in DOMAIN Children(n) : r.st.p.status[Children(n)[i]] = Idle]]

----------------------------------------------------------------------------
\* Faulty variant of TreeNode_halt: a halt that resets the first child that is not
\* Idle and stops there.
TreeNode_halt_FirstChildOnly(n, st) ==
  LET busy == {i \in DOMAIN Children(n) : st.p.status[Children(n)[i]] # Idle} IN
  IF busy = {} THEN st
  ELSE LET i == CHOOSE j \in busy : \A k \in busy : j <= k
       IN [st EXCEPT !.p.status[Children(n)[i]] = Idle]

\* TreeNode::halt, the trait's default body `{}`: CompositeWrapper and
\* DecoratorWrapper do not override it.
TreeNode_halt(n, st) == st

\* ActionWrapper::halt: runs the action implementation's halt hook.
ActionWrapper_halt(n, st) == [st EXCEPT !.obs.halted = @ \cup {n}]

\* TreeNodeWrapper::halt: dispatch on the variant.
halt(n, st) ==
  CASE Kind(n) = "Action" -> ActionWrapper_halt(n, st)
    [] Kind(n) \in CompositeKinds -> TreeNode_halt(n, st)
    [] OTHER -> TreeNode_halt(n, st)

\* Faulty variant of reset_status: a node with a receiver on its channel keeps
\* its status.
reset_status_SkipsObserved(n, st) ==
  IF st.p.watch[n].receiver_count > 0 THEN st
  ELSE DataProxy_set_status(st, n, Idle)

\* TreeNodeWrapper::reset_status -> DataProxy::reset_status
reset_status(n, st) == DataProxy_set_status(st, n, Idle)

----------------------------------------------------------------------------
\* Blackboard (node/mod.rs).  A HashMap is a function on the keys it holds; a
\* Weak<RwLock<Blackboard>> is the index of the Blackboard it points to.
Keys == {"x", "y"}

\* serde_json::Value: a JSON string or a JSON number, by its text.
Values == {[t |-> "string", v |-> "42"], [t |-> "number", v |-> "7"]}

HashMap_new == <<>>
HashMap_get(m, k) == IF k \in DOMAIN m THEN Some(m[k]) ELSE None
HashMap_insert(m, k, v) ==
  [j \in DOMAIN m \cup {k} |-> IF j = k THEN v ELSE m[j]]
HashMap_extend(m, other) ==
  [j \in DOMAIN m \cup DOMAIN other |-> IF j \in DOMAIN other THEN other[j] ELSE m[j]]

\* Blackboard::default
Blackboard_default ==
  [storage |-> HashMap_new, parent_bb |-> None, internal_to_external |-> HashMap_new]

\* Faulty variant of Blackboard_new_with_parent: the new Blackboard has no
\* parent.
Blackboard_new_with_parent_NoParent(parent_bb) == Blackboard_default

\* Blackboard::new_with_parent
Blackboard_new_with_parent(parent_bb) ==
  [Blackboard_default EXCEPT !.parent_bb = Some(parent_bb)]

\* Blackboard::extend_parent_remappings
Blackboard_extend_parent_remappings(bb, remappings) ==
  [bb EXCEPT !.internal_to_external = HashMap_extend(@, remappings)]

\* Weak::upgrade on the parent pointer: None once the parent is dropped.
Weak_upgrade(gone, parent_bb) ==
  IF parent_bb # None /\ parent_bb[1] \notin gone THEN parent_bb ELSE None

RECURSIVE Blackboard_get_entry(_, _, _, _)

\* Faulty variant of Blackboard_get_entry: the parent is asked for the key as
\* it was looked up, internal_to_external is not consulted.
Blackboard_get_entry_NoRemap(bbs, gone, b, key) ==
  LET local == HashMap_get(bbs[b].storage, key) IN
  IF local # None THEN local
  ELSE LET parent_bb == Weak_upgrade(gone, bbs[b].parent_bb)
       IN IF parent_bb # None
          THEN Blackboard_get_entry(bbs, gone, parent_bb[1], key)
          ELSE None

\* Blackboard::get_entry on Blackboard b of the world (bbs, gone).
Blackboard_get_entry(bbs, gone, b, key) ==
  LET local == HashMap_get(bbs[b].storage, key) IN
  IF local # None THEN local
  ELSE LET external_key == HashMap_get(bbs[b].internal_to_external, key)
           parent_key == IF external_key # None THEN external_key[1] ELSE key
           parent_bb == Weak_upgrade(gone, bbs[b].parent_bb)
       IN IF parent_bb # None
          THEN Blackboard_get_entry(bbs, gone, parent_bb[1], parent_key)
          ELSE None

\* Faulty variant of Blackboard_set: the value is also written into the
\* parent's storage.
Blackboard_set_WritesThrough(bbs, b, key, value) ==
  LET own == [bbs EXCEPT ![b].storage = HashMap_insert(@, key, value)] IN
  IF bbs[b].parent_bb = None THEN own
  ELSE [own EXCEPT ![bbs[b].parent_bb[1]].storage = HashMap_insert(@, key, value)]

\* Blackboard::set on Blackboard b.
Blackboard_set(bbs, b, key, value) ==
  [bbs EXCEPT ![b].storage = HashMap_insert(@, key, value)]

NoGot == [op |-> "none", b |-> 0, key |-> "", res |-> None, uid |-> -1]

----------------------------------------------------------------------------
\* The XML text, as the events quick_xml's Reader yields for it.  A piece of
\* text (a &str slice) is a sequence of events; attributes are a function
\* from attribute names to strings.
NoAttrs == <<>>
Start(name, attrs) == [type |-> "Start", name |-> name, attrs |-> attrs]
Empty(name, attrs) == [type |-> "Empty", name |-> name, attrs |-> attrs]
End(name) == [type |-> "End", name |-> name, attrs |-> NoAttrs]

\* <name attrs>body</name> and <name attrs/>
Element(name, attrs, body) == <<Start(name, attrs)>> \o body \o <<End(name)>>
SelfClosing(name, attrs) == <<Empty(name, attrs)>>

\* Reader::read_to_end after the Start event at position i of text: the
\* position of the matching End event, same-named elements nested in between
\* counted; 0 when there is none (an error: the event at i is an Empty one).
read_to_end(text, i) ==
  LET name == text[i].name
      Count(type, j) ==
        Cardinality({k \in (i + 1)..(j - 1) : text[k].type = type /\ text[k].name = name})
      ends == {j \in (i + 1)..Len(text) :
                 /\ text[j].type = "End" /\ text[j].name = name
                 /\ Count("Start", j) = Count("End", j)}
  IN IF text[i].type # "Start" \/ ends = {} THEN 0
     ELSE CHOOSE j \in ends : \A k \in ends : j <= k

\* AttributesWrapper::get_key
get_key(attrs, key) == IF key \in DOMAIN attrs THEN Some(attrs[key]) ELSE None

\* is_ref_key / strip_ref_tag on the attribute values of the model: "{x}" and
\* "{y}" start and end with a brace, "{x" only starts with one.
is_ref_key(key) == key \in {"{x}", "{y}"}

strip_ref_tag_KeepsBraces(key) == key

strip_ref_tag(key) ==
  CASE key = "{x}" -> "x"
    [] key = "{y}" -> "y"
    [] key = "{x" -> "x"
    [] OTHER -> key

\* Vec<String>::join("/")
RECURSIVE join(_)
join(path_folders) ==
  IF Len(path_folders) = 0 THEN ""
  ELSE IF Len(path_folders) = 1 THEN path_folders[1]
  ELSE path_folders[1] \o "/" \o join(Tail(path_folders))

\* Factory::default plus one action type registered by the user under the
\* pattern "^A$" (Factory::register_action_node_type).
composite_types == {"Sequence", "Fallback", "Parallel"}
decorator_types ==
  {"ForceSuccess", "ForceFailure", "Inverter", "Repeat", "RetryUntilSuccessful",
   "SubTree"}
action_node_tcs == {"^SetBlackboard$", "^A$"}

\* Regex::is_match on the element names of the model.
is_match(type_regex, type_name) ==
  \/ type_regex = "^SetBlackboard$" /\ type_name = "SetBlackboard"
  \/ type_regex = "^A$" /\ type_name = "A"

\* Result<Option<TreeNodeWrapper>>
Ok(node) == [ok |-> TRUE, node |-> node, msg |-> ""]
Err(msg) == [ok |-> FALSE, node |-> None, msg |-> msg]

\* A built node: the wrapper's variant, its DataProxy (uid, full_path, the
\* Blackboard it is bound to, input_ports) and the nodes it owns.
NewNode(kind, name, uid, full_path, bb, input_ports, children) ==
  [kind |-> kind, name |-> name, uid |-> uid, full_path |-> full_path,
   bb |-> bb, input_ports |-> input_ports, children |-> children]

\* CompositeWrapper::add_child / the decorator's inner node
add_child(node, child) == [node EXCEPT !.children = Append(@, child)]

\* AtomicU16::fetch_add(1): the value before, and the counter after.
fetch_add(uid_generator) == (uid_generator + 1) % 65536

\* Factory::build_action: the constructor of a registered pattern that matches
\* the element name, None when no pattern matches.
build_action(type_name, uid, full_path, bb, attrs) ==
  IF \E type_regex \in action_node_tcs : is_match(type_regex, type_name)
  THEN Some(NewNode("Action", type_name, uid, full_path, bb, attrs, <<>>))
  ELSE None

RECURSIVE create_tree_node_recursively(_, _, _, _, _)
RECURSIVE build_loop(_, _, _, _, _, _, _)

\* create_tree_node_recursively, the arm of a decorator element (SubTree
\* included) at position i.  w is what the calls share: uid_generator, the
\* Blackboards created so far (bbs) and the depth of the recursion.
decorator_element(i, path_folders, control_nodes, check_str, tree_ranges, bb, w) ==
  LET e == check_str[i]
      kv == e.attrs
      is_subtree == e.name = "SubTree"
      tree_id == get_key(kv, "ID")
      end == read_to_end(check_str, i)
  IN IF is_subtree /\ tree_id = None
     THEN [res |-> Err("no ID found for SubTree"), w |-> w]
     ELSE IF is_subtree /\ tree_id[1] \notin DOMAIN tree_ranges
     THEN [res |-> Err("can't find range for tree"), w |-> w]
     ELSE IF ~is_subtree /\ end = 0
     THEN [res |-> Err("read_to_end"), w |-> w]
     ELSE
       LET remappings == [k \in DOMAIN kv \ {"ID"} |-> strip_ref_tag(kv[k])]
           subtree_bb ==
             Blackboard_extend_parent_remappings(Blackboard_new_with_parent(bb),
                                                 remappings)
           bbs1 == IF is_subtree THEN Append(w.bbs, subtree_bb) ELSE w.bbs
           new_bb == IF is_subtree THEN Len(bbs1) ELSE bb
           subtree_check_str ==
             IF is_subtree THEN tree_ranges[tree_id[1]]
             ELSE SubSeq(check_str, i + 1, end - 1)
           next == IF is_subtree THEN i + 1 ELSE end + 1
           uid == w.uid_generator
           subtree_path_folders == Append(path_folders, e.name)
           r == create_tree_node_recursively(
                  subtree_path_folders, subtree_check_str, tree_ranges, new_bb,
                  [uid_generator |-> fetch_add(uid), bbs |-> bbs1,
                   depth |-> w.depth + 1])
       IN IF ~r.res.ok THEN r
          ELSE IF r.res.node = None
          THEN [res |-> Err("no subtree node created"), w |-> r.w]
          ELSE
            LET decorator_node ==
                  NewNode("Decorator", e.name, uid, join(subtree_path_folders),
                          bb, kv, <<r.res.node[1]>>)
                w2 == [r.w EXCEPT !.depth = w.depth]
            IN IF control_nodes # <<>>
               THEN build_loop(next, path_folders,
                               <<add_child(Head(control_nodes), decorator_node)>>
                                 \o Tail(control_nodes),
                               check_str, tree_ranges, bb, w2)
               ELSE [res |-> Ok(Some(decorator_node)), w |-> w2]

\* create_tree_node_recursively, the `loop` over the reader's events from
\* position i on; control_nodes has its front first.
build_loop(i, path_folders, control_nodes, check_str, tree_ranges, bb, w) ==
  IF i > Len(check_str) THEN [res |-> Ok(None), w |-> w]
  ELSE
    LET e == check_str[i] IN
    IF e.type = "End"
    THEN IF e.name \in composite_types
         THEN LET popped == SubSeq(path_folders, 1, Len(path_folders) - 1) IN
              IF control_nodes = <<>>
              THEN [res |-> Err("unexpected end"), w |-> w]
              ELSE IF Tail(control_nodes) # <<>>
              THEN build_loop(i + 1, popped,
                              <<add_child(control_nodes[2], control_nodes[1])>>
                                \o Tail(Tail(control_nodes)),
                              check_str, tree_ranges, bb, w)
              ELSE [res |-> Ok(Some(control_nodes[1])), w |-> w]
         ELSE build_loop(i + 1, path_folders, control_nodes, check_str,
                         tree_ranges, bb, w)
    ELSE IF e.name \in composite_types
    THEN LET pushed == Append(path_folders, e.name)
             node == NewNode("Composite", e.name, w.uid_generator, join(pushed),
                             bb, e.attrs, <<>>)
         IN build_loop(i + 1, pushed, <<node>> \o control_nodes, check_str,
                       tree_ranges, bb,
                       [w EXCEPT !.uid_generator = fetch_add(@)])
    ELSE IF e.name \in decorator_types
    THEN decorator_element(i, path_folders, control_nodes, check_str,
                           tree_ranges, bb, w)
    ELSE
      LET path_folers_leaf == Append(path_folders, e.name)
          built_node == build_action(e.name, w.uid_generator,
                                     join(path_folers_leaf), bb, e.attrs)
      IN IF built_node = None
         THEN build_loop(i + 1, path_folders, control_nodes, check_str,
                         tree_ranges, bb, w)
         ELSE LET w2 == [w EXCEPT !.uid_generator = fetch_add(@)] IN
              IF control_nodes # <<>>
              THEN build_loop(i + 1, path_folders,
                              <<add_child(Head(control_nodes), built_node[1])>>
                                \o Tail(control_nodes),
                              check_str, tree_ranges, bb, w2)
              ELSE [res |-> Ok(Some(built_node[1])), w |-> w2]

\* create_tree_node_recursively; a recursion deeper than the stack holds ends
\* the process (reported here as the outcome "stack overflow").
create_tree_node_recursively(path_folders, check_str, tree_ranges, bb, w) ==
  IF w.depth > MaxBuildDepth THEN [res |-> Err("stack overflow"), w |-> w]
  ELSE build_loop(1, path_folders, <<>>, check_str, tree_ranges, bb, w)

\* create_bt_tree_from_xml_str, the second `loop`: the ranges of the
\* BehaviorTree elements of the text, by ID, from position i on.
RECURSIVE scan_trees(_, _, _)
scan_trees(text, i, tree_ranges) ==
  IF i > Len(text) THEN [ok |-> TRUE, tree_ranges |-> tree_ranges, msg |-> ""]
  ELSE IF text[i].type = "Start" /\ text[i].name = "BehaviorTree"
  THEN LET id == get_key(text[i].attrs, "ID")
           end == read_to_end(text, i)
       IN IF id = None
          THEN [ok |-> FALSE, tree_ranges |-> tree_ranges,
                msg |-> "no ID found in BehaviorTree element"]
          ELSE IF end = 0
          THEN [ok |-> FALSE, tree_ranges |-> tree_ranges, msg |-> "read_to_end"]
          ELSE scan_trees(text, end + 1,
                          HashMap_insert(tree_ranges, id[1],
                                         SubSeq(text, i + 1, end - 1)))
  ELSE scan_trees(text, i + 1, tree_ranges)

\* HashMap::remove of one key
HashMap_remove(m, k) == [j \in DOMAIN m \ {k} |-> m[j]]

\* The IDs under which BehaviorTree elements appear in the model's texts.
TreeIds == {"main", "child", "grand"}

\* create_bt_tree_from_xml_str, the first `loop`: the position of the first
\* Start event of a root element, 0 when the text has none.
root_start(s) ==
  LET roots == {i \in DOMAIN s : s[i].type = "Start" /\ s[i].name = "root"}
  IN IF roots = {} THEN 0 ELSE CHOOSE i \in roots : \A k \in roots : i <= k

\* s[root_range]
root_text(s) == SubSeq(s, root_start(s) + 1, read_to_end(s, root_start(s)) - 1)

\* tree_ranges.drain(): the IDs of the entries the iterator may yield first
\* (a HashMap iterates in no fixed order); the empty ID stands for an
\* iterator that yields nothing.
drain(s) ==
  IF root_start(s) = 0 \/ read_to_end(s, root_start(s)) = 0 THEN {""}
  ELSE LET all == scan_trees(root_text(s), 1, HashMap_new).tree_ranges
       IN IF DOMAIN all = {} THEN {""} ELSE DOMAIN all

\* create_bt_tree_from_xml_str on the text s.  first is the ID of the entry
\* that tree_ranges.drain().next() yields when main_tree_to_execute is not
\* given.
create_bt_tree_from_xml_str(s, first) ==
  LET r == root_start(s)
      none == [uid_generator |-> 0, bbs |-> <<>>, depth |-> 0]
  IN IF r = 0 THEN [res |-> Err("no root range found"), w |-> none]
     ELSE IF read_to_end(s, r) = 0 THEN [res |-> Err("read_to_end"), w |-> none]
     ELSE
       LET main_tree_id == get_key(s[r].attrs, "main_tree_to_execute")
           scanned == scan_trees(root_text(s), 1, HashMap_new)
           all == scanned.tree_ranges
           main_tree ==
             IF main_tree_id # None THEN HashMap_get(all, main_tree_id[1])
             ELSE HashMap_get(all, first)
           tree_ranges ==
             IF main_tree_id # None THEN HashMap_remove(all, main_tree_id[1])
             ELSE HashMap_new
       IN IF ~scanned.ok THEN [res |-> Err(scanned.msg), w |-> none]
          ELSE IF main_tree = None
          THEN [res |-> Err("no main bt tree found"), w |-> none]
          ELSE create_tree_node_recursively(
                 <<>>, main_tree[1], tree_ranges, 1,
                 [uid_generator |-> 0, bbs |-> <<Blackboard_default>>, depth |-> 0])

\* serde_json::from_value::<String>(v).ok(): a JSON string yields its text,
\* any other JSON value is an error.
from_value_String(v) == IF v.t = "string" THEN Some(v.v) ELSE None

\* DataProxy::get_input::<String> of a built node (String::from_str never
\* fails, so a literal port value is returned as it is written).
get_input(bbs, gone, node, key) ==
  IF key \notin DOMAIN node.input_ports THEN None
  ELSE
    LET input_value_str == node.input_ports[key] IN
    IF is_ref_key(input_value_str)
    THEN LET stripped_key == strip_ref_tag(input_value_str)
             bb_value == Blackboard_get_entry(bbs, gone, node.bb, stripped_key)
         IN IF bb_value = None THEN None ELSE from_value_String(bb_value[1])
    ELSE Some(input_value_str)

\* serde_json's json!(value) of a String
json(value) == [t |-> "string", v |-> value]

SetBlackboard_tick_status_WritesRoot(bbs, gone, node) ==
  LET output_key == get_input(bbs, gone, node, "output_key")
      value == get_input(bbs, gone, node, "value")
  IN IF output_key = None THEN [status |-> Failure, bbs |-> bbs]
     ELSE IF value = None THEN [status |-> Failure, bbs |-> bbs]
     ELSE [status |-> Success,
           bbs |-> Blackboard_set(bbs, 1, output_key[1], json(value[1]))]

\* SetBlackboard::tick_status of a built SetBlackboard node: the status it
\* returns and the Blackboards afterwards.
SetBlackboard_tick_status(bbs, gone, node) ==
  LET output_key == get_input(bbs, gone, node, "output_key")
      value == get_input(bbs, gone, node, "value")
  IN IF output_key = None THEN [status |-> Failure, bbs |-> bbs]
     ELSE IF value = None THEN [status |-> Failure, bbs |-> bbs]
     ELSE [status |-> Success,
           bbs |-> Blackboard_set(bbs, node.bb, output_key[1], json(value[1]))]

\* No text has been handed to the builder yet.
NotBuilt == [done |-> FALSE, res |-> Err("")]

\* How many <A/> elements the loop is followed through at a time.
Batches == {1, 256, 4096}

\* No build is in progress.
NoFeed == [phase |-> "none", uid_generator |-> 0, nodes |-> 0,
           root_uid |-> -1, last_uid |-> -1]

----------------------------------------------------------------------------
Init ==
  /\ tree \in Trees
  /\ status = [n \in Nodes |-> Idle]
  /\ current_child_idx = [n \in Nodes |-> 0]
  /\ success_count = [n \in Nodes |-> 0]
  /\ failure_count = [n \in Nodes |-> 0]
  /\ completed_list = [n \in Nodes |-> {}]
  /\ repeat_count = [n \in Nodes |-> 0]
  /\ try_count = [n \in Nodes |-> 0]
  /\ watch = [n \in Nodes |-> watch_channel]
  /\ clock = 0
  /\ blackboards = <<>>
  /\ dropped = {}
  /\ got = NoGot
  /\ xml = <<>>
  /\ built = NotBuilt
  /\ feed = NoFeed
  /\ last = [op |-> "new", o |-> <<>>, later |-> <<>>, ret |-> "none",
             pre |-> InitProg, obs |-> NoObs, halts |-> 0,
             ticks |-> 0, allSuccess |-> TRUE]

Install(op, o, ret, st) ==
  /\ status' = st.p.status
  /\ current_child_idx' = st.p.current_child_idx
  /\ success_count' = st.p.success_count
  /\ failure_count' = st.p.failure_count
  /\ completed_list' = st.p.completed_list
  /\ repeat_count' = st.p.repeat_count
  /\ try_count' = st.p.try_count
  /\ watch' = st.p.watch
  /\ clock' = clock
  /\ last' = [op |-> op, o |-> o, later |-> st.later, ret |-> ret,
              pre |-> Prog, obs |-> st.obs,
              halts |-> IF op # "halt" THEN 0
                        ELSE IF last.halts >= 2 THEN 2 ELSE last.halts + 1,
              ticks |-> IF op # "tick" \/ last.ticks >= MaxTicks
                        THEN last.ticks ELSE last.ticks + 1,
              allSuccess |-> IF op # "tick" THEN last.allSuccess
                             ELSE /\ last.allSuccess
                                  /\ \A n \in Leaves : o[n] = Success
                                  /\ \A n \in Leaves : st.later[n] = Success]
  /\ UNCHANGED <<tree, bbVars, buildVars>>

\* The user calls root.tick(); o is what each action leaf's tick_status
\* returns during this call.
\* The action leaves that one call can tick more than once: those below a
\* RetryUntilSuccessful.
UnderRetry == IF \E n \in Nodes : Kind(n) = "RetryUntilSuccessful" THEN Leaves ELSE {}

Tick ==
  /\ \A n \in Nodes : repeat_count[n] < MaxRepeatCount
  /\ \E o \in [Leaves -> ActionResults] :
       \E later \in {l \in [Leaves -> ActionResults] :
                       \A n \in Leaves \ UnderRetry : l[n] = o[n]} :
         LET r == tick(Root, [Begin(Prog) EXCEPT !.later = later], o)
         IN Install("tick", o, r.res, r.st)

\* The user calls root.halt().
Halt == Install("halt", <<>>, "none", halt(Root, Begin(Prog)))

\* The user calls root.reset_status().
ResetStatus == Install("reset_status", <<>>, "none", reset_status(Root, Begin(Prog)))

Next == Tick \/ Halt \/ ResetStatus

Spec == Init /\ [][Next]_vars

----------------------------------------------------------------------------
\* The user's loop: tick the root until the status it returns is not Running,
\* in trees whose action leaves return Success from every tick_status.

\* <Parallel><A/><Inverter><A/></Inverter></Parallel>
ParallelOfBoth ==
  <<[kind |-> "Parallel", children |-> <<2, 3>>, ports |-> NoPorts],
    ActionNode,
    [kind |-> "Inverter", children |-> <<4>>, ports |-> NoPorts],
    ActionNode>>

RunTrees == Trees \cup {ParallelOfBoth}

InitRun ==
  /\ tree \in RunTrees
  /\ status = [n \in Nodes |-> Idle]
  /\ current_child_idx = [n \in Nodes |-> 0]
  /\ success_count = [n \in Nodes |-> 0]
  /\ failure_count = [n \in Nodes |-> 0]
  /\ completed_list = [n \in Nodes |-> {}]
  /\ repeat_count = [n \in Nodes |-> 0]
  /\ try_count = [n \in Nodes |-> 0]
  /\ watch = [n \in Nodes |-> watch_channel]
  /\ clock = 0
  /\ blackboards = <<>>
  /\ dropped = {}
  /\ got = NoGot
  /\ xml = <<>>
  /\ built = NotBuilt
  /\ feed = NoFeed
  /\ last = [op |-> "new", o |-> <<>>, later |-> <<>>, ret |-> "none",
             pre |-> InitProg, obs |-> NoObs, halts |-> 0,
             ticks |-> 0, allSuccess |-> TRUE]

\* The loop has left: the last tick returned a status other than Running.
RunDone == last.op = "tick" /\ last.ret # Running

\* What root.tick() does when every action leaf returns Success.
RunResult ==
  LET o == [n \in Leaves |-> Success]
  IN tick(Root, [Begin(Prog) EXCEPT !.later = o], o)

\* One iteration of `loop { let res = node.tick(); if res != Running { break } }`.
RunTick ==
  /\ ~RunDone
  /\ \A n \in Nodes : repeat_count[n] < MaxRepeatCount
  /\ \E r \in {RunResult} :
       Install("tick", [n \in Leaves |-> Success], r.res, r.st)

NextRun == RunTick

\* The loop does nothing but tick: an iteration that can be made is made.
SpecRun == InitRun /\ [][NextRun]_vars /\ WF_vars(RunTick)

----------------------------------------------------------------------------
\* The Blackboard alone: scopes as the builder links them (a root, a chain of
\* nested scopes, two sibling scopes), driven through the Blackboard's methods.
ScopeShapes ==
  {<<None>>, <<None, Some(1)>>, <<None, Some(1), Some(2)>>, <<None, Some(1), Some(1)>>}

Scopes == DOMAIN blackboards
Live == Scopes \ dropped

RECURSIVE SumOver(_, _)
SumOver(f, S) ==
  IF S = {} THEN 0 ELSE LET x == CHOOSE y \in S : TRUE IN f[x] + SumOver(f, S \ {x})

Entries ==
  SumOver([b \in Scopes |-> Cardinality(DOMAIN blackboards[b].storage)
                             + Cardinality(DOMAIN blackboards[b].internal_to_external)],
          Scopes)

InitBB ==
  /\ tree = LeafTree
  /\ status = [n \in Nodes |-> Idle]
  /\ current_child_idx = [n \in Nodes |-> 0]
  /\ success_count = [n \in Nodes |-> 0]
  /\ failure_count = [n \in Nodes |-> 0]
  /\ completed_list = [n \in Nodes |-> {}]
  /\ repeat_count = [n \in Nodes |-> 0]
  /\ try_count = [n \in Nodes |-> 0]
  /\ watch = [n \in Nodes |-> watch_channel]
  /\ clock = 0
  /\ last = [op |-> "new", o |-> <<>>, later |-> <<>>, ret |-> "none",
             pre |-> InitProg, obs |-> NoObs, halts |-> 0,
             ticks |-> 0, allSuccess |-> TRUE]
  /\ \E shape \in ScopeShapes :
       blackboards = [i \in DOMAIN shape |->
                        IF shape[i] = None THEN Blackboard_default
                        ELSE Blackboard_new_with_parent(shape[i][1])]
  /\ dropped = {}
  /\ got = NoGot
  /\ xml = <<>>
  /\ built = NotBuilt
  /\ feed = NoFeed

\* bb.set(key, value) on a live Blackboard.
BBSet(b, key, value) ==
  /\ b \in Live
  /\ key \in DOMAIN blackboards[b].storage \/ Entries < MaxEntries
  /\ blackboards' = Blackboard_set(blackboards, b, key, value)
  /\ got' = NoGot
  /\ UNCHANGED <<dropped, treeVars, buildVars>>

\* bb.extend_parent_remappings({key: external}) on a live Blackboard.
BBExtend(b, key, external) ==
  /\ b \in Live
  /\ key \in DOMAIN blackboards[b].internal_to_external \/ Entries < MaxEntries
  /\ blackboards' =
       [blackboards EXCEPT
          ![b] = Blackboard_extend_parent_remappings(@, [k \in {key} |-> external])]
  /\ got' = NoGot
  /\ UNCHANGED <<dropped, treeVars, buildVars>>

\* The last Arc of a Blackboard is dropped: its contents are freed and every
\* Weak pointer to it stops upgrading.
BBDrop(b) ==
  /\ b \in Live
  /\ dropped' = dropped \cup {b}
  /\ blackboards' = [blackboards EXCEPT ![b] = Blackboard_default]
  /\ got' = NoGot
  /\ UNCHANGED <<treeVars, buildVars>>

\* bb.get_entry(key) on a live Blackboard.
BBGet(b, key) ==
  /\ b \in Live
  /\ got' = [op |-> "get_entry", b |-> b, key |-> key,
             res |-> Blackboard_get_entry(blackboards, dropped, b, key),
             uid |-> -1]
  /\ UNCHANGED <<blackboards, dropped, treeVars, buildVars>>

NextBB ==
  \/ \E b \in Scopes, key \in Keys, value \in Values : BBSet(b, key, value)
  \/ \E b \in Scopes, key \in Keys, external \in Keys : BBExtend(b, key, external)
  \/ \E b \in Scopes : BBDrop(b)
  \/ \E b \in Scopes, key \in Keys : BBGet(b, key)

SpecBB == InitBB /\ [][NextBB]_vars

----------------------------------------------------------------------------
\* A DataProxy and its observers: set_status called directly, receivers
\* subscribed and dropped, and the system clock read by set_status.

InitProxy ==
  /\ tree = DecoTree("Inverter", LeafTree)
  /\ status = [n \in Nodes |-> Idle]
  /\ current_child_idx = [n \in Nodes |-> 0]
  /\ success_count = [n \in Nodes |-> 0]
  /\ failure_count = [n \in Nodes |-> 0]
  /\ completed_list = [n \in Nodes |-> {}]
  /\ repeat_count = [n \in Nodes |-> 0]
  /\ try_count = [n \in Nodes |-> 0]
  /\ watch = [n \in Nodes |-> watch_channel]
  /\ clock = 0
  /\ last = [op |-> "new", o |-> <<>>, later |-> <<>>, ret |-> "none",
             pre |-> InitProg, obs |-> NoObs, halts |-> 0,
             ticks |-> 0, allSuccess |-> TRUE]
  /\ blackboards = <<>>
  /\ dropped = {}
  /\ got = NoGot
  /\ xml = <<>>
  /\ built = NotBuilt
  /\ feed = NoFeed

\* data_proxy.set_status(new_status) on node n.
SetStatus(n, new_status) ==
  /\ watch[n].version < MaxVersion
  /\ LET st == DataProxy_set_status(Begin(Prog), n, new_status) IN
     /\ status' = st.p.status
     /\ watch' = st.p.watch
  /\ last' = [last EXCEPT !.op = "set_status", !.o = <<n, new_status>>]
  /\ UNCHANGED <<tree, current_child_idx, success_count, failure_count,
                 completed_list, repeat_count, try_count, clock, bbVars, buildVars>>

\* data_proxy.add_observer() on node n: one more receiver on its channel.
AddObserver(n) ==
  /\ watch[n].receiver_count < MaxObservers
  /\ watch' = [watch EXCEPT ![n].receiver_count = @ + 1]
  /\ last' = [last EXCEPT !.op = "add_observer"]
  /\ UNCHANGED <<tree, status, current_child_idx, success_count, failure_count,
                 completed_list, repeat_count, try_count, clock, bbVars, buildVars>>

\* A receiver of node n's channel is dropped.
DropObserver(n) ==
  /\ watch[n].receiver_count > 0
  /\ watch' = [watch EXCEPT ![n].receiver_count = @ - 1]
  /\ last' = [last EXCEPT !.op = "drop_observer"]
  /\ UNCHANGED <<tree, status, current_child_idx, success_count, failure_count,
                 completed_list, repeat_count, try_count, clock, bbVars, buildVars>>

\* Time passes on the system clock.
ClockAdvance ==
  /\ clock < MaxClock
  /\ clock' = clock + 1
  /\ last' = [last EXCEPT !.op = "clock"]
  /\ UNCHANGED <<tree, status, current_child_idx, success_count, failure_count,
                 completed_list, repeat_count, try_count, watch, bbVars, buildVars>>

\* The system clock is set back (chrono::Utc::now reads the real-time clock
\* of the system, which an administrator or a time service can adjust).
ClockSetBack ==
  /\ \E earlier \in 0..(clock - 1) : clock' = earlier
  /\ last' = [last EXCEPT !.op = "clock"]
  /\ UNCHANGED <<tree, status, current_child_idx, success_count, failure_count,
                 completed_list, repeat_count, try_count, watch, bbVars, buildVars>>

\* The node whose DataProxy is followed: the inner node, which has uid 1.
Observed == 2

NextProxy ==
  \/ \E new_status \in NodeStatus : SetStatus(Observed, new_status)
  \/ AddObserver(Observed)
  \/ DropObserver(Observed)
  \/ ClockAdvance
  \/ ClockSetBack

SpecProxy == InitProxy /\ [][NextProxy]_vars

----------------------------------------------------------------------------
\* A tree that is ticked, halted and reset while observers subscribe to its
\* nodes and drop their receivers.
ObservedTrees ==
  {LeafTree, FlatTree("Sequence", 1, NoPorts), DecoTree("Inverter", LeafTree)}

InitObs ==
  /\ tree \in ObservedTrees
  /\ status = [n \in Nodes |-> Idle]
  /\ current_child_idx = [n \in Nodes |-> 0]
  /\ success_count = [n \in Nodes |-> 0]
  /\ failure_count = [n \in Nodes |-> 0]
  /\ completed_list = [n \in Nodes |-> {}]
  /\ repeat_count = [n \in Nodes |-> 0]
  /\ try_count = [n \in Nodes |-> 0]
  /\ watch = [n \in Nodes |-> watch_channel]
  /\ clock = 0
  /\ last = [op |-> "new", o |-> <<>>, later |-> <<>>, ret |-> "none",
             pre |-> InitProg, obs |-> NoObs, halts |-> 0,
             ticks |-> 0, allSuccess |-> TRUE]
  /\ blackboards = <<>>
  /\ dropped = {}
  /\ got = NoGot
  /\ xml = <<>>
  /\ built = NotBuilt
  /\ feed = NoFeed

\* The calls on the root, made while the channels have had fewer than
\* MaxVersion sends between them.
ObservedCall ==
  /\ SumOver([n \in Nodes |-> watch[n].version], Nodes) < MaxVersion
  /\ (Tick \/ Halt \/ ResetStatus)

NextObs ==
  \/ ObservedCall
  \/ \E n \in Nodes : AddObserver(n)
  \/ \E n \in Nodes : DropObserver(n)

SpecObs == InitObs /\ [][NextObs]_vars

----------------------------------------------------------------------------
\* Building trees from XML text, and using the Blackboards of what was built.

\* Elements the documents are made of.
A == SelfClosing("A", NoAttrs)
Unknown == SelfClosing("Unknown", NoAttrs)
SetBlackboard(output_key, value) ==
  SelfClosing("SetBlackboard", [k \in {"output_key", "value"} |->
                                  IF k = "output_key" THEN output_key ELSE value])
SubTree(attrs) == SelfClosing("SubTree", attrs)
Ref(id) == [k \in {"ID"} |-> id]
RefRemap(id, internal, external) ==
  [k \in {"ID", internal} |-> IF k = "ID" THEN id ELSE external]

\* The JSON value a user action stores.
UserValue == [t |-> "number", v |-> "7"]

\* Bodies of the main BehaviorTree element.
MainBodies ==
  { A,
    Element("Sequence", NoAttrs, <<>>),
    Element("Sequence", NoAttrs, A \o A),
    Element("Sequence", NoAttrs, A \o Element("Fallback", NoAttrs, A \o A) \o A),
    Element("Sequence", NoAttrs, Element("Inverter", NoAttrs, A) \o A),
    Element("Inverter", NoAttrs, Element("Inverter", NoAttrs, A)),
    Element("Sequence", NoAttrs,
            SetBlackboard("x", "42") \o SubTree(RefRemap("child", "y", "{x}"))),
    Element("Sequence", NoAttrs,
            SetBlackboard("x", "42") \o SubTree(RefRemap("child", "y", "x"))),
    Element("Sequence", NoAttrs, SubTree(Ref("child")) \o SubTree(Ref("child"))),
    Element("Sequence", NoAttrs,
            A \o SetBlackboard("x", "42") \o SetBlackboard("{x}", "{x}")
              \o SelfClosing("SetBlackboard", [k \in {"output_key"} |-> "x"])
              \o SelfClosing("SetBlackboard", [k \in {"value"} |-> "1"])),
    SubTree(Ref("child")),
    Element("Sequence", NoAttrs, A \o SubTree(NoAttrs)),
    Element("Sequence", NoAttrs, A \o SubTree(Ref("nope"))),
    Element("Sequence", NoAttrs, A \o SubTree(Ref("main"))),
    Element("Sequence", NoAttrs, Unknown \o A),
    Element("Sequence", NoAttrs, Element("Unknown", NoAttrs, A) \o A),
    Element("Unknown", NoAttrs, A),
    SelfClosing("Sequence", NoAttrs),
    Element("Sequence", NoAttrs, SelfClosing("Fallback", NoAttrs) \o A),
    SelfClosing("Inverter", NoAttrs) }

\* The BehaviorTree elements that follow the main one.
OtherTrees ==
  { <<>>,
    Element("BehaviorTree", Ref("child"), SetBlackboard("z", "{y}")),
    Element("BehaviorTree", Ref("child"),
            Element("Sequence", NoAttrs,
                    SetBlackboard("y", "7") \o SetBlackboard("z", "{y}"))),
    Element("BehaviorTree", Ref("child"),
            Element("Sequence", NoAttrs,
                    A \o SubTree(RefRemap("grand", "y", "{y}"))))
      \o Element("BehaviorTree", Ref("grand"), SetBlackboard("z", "{y}")),
    Element("BehaviorTree", Ref("child"), SubTree(Ref("child"))),
    Element("BehaviorTree", Ref("child"), A)
      \o Element("BehaviorTree", NoAttrs, A),
    Element("BehaviorTree", Ref("child"), A)
      \o SelfClosing("BehaviorTree", NoAttrs) }

\* The attributes of the root element.
RootAttrs ==
  { NoAttrs,
    [k \in {"main_tree_to_execute"} |-> "main"],
    [k \in {"main_tree_to_execute"} |-> "nope"] }

\* The texts handed to the builder: a root element holding BehaviorTree
\* elements, and a text without a root element.
Docs ==
  { Element("root", attrs,
            Element("BehaviorTree", Ref("main"), body) \o others) :
      attrs \in RootAttrs, body \in MainBodies, others \in OtherTrees }
  \cup { Element("BehaviorTree", Ref("main"), A) }

\* All nodes of a built tree, the root included.
RECURSIVE NodesOf(_)
NodesOf(node) ==
  {node} \cup UNION {NodesOf(node.children[i]) : i \in DOMAIN node.children}

BuiltNodes ==
  IF built.done /\ built.res.ok /\ built.res.node # None
  THEN NodesOf(built.res.node[1]) ELSE {}

InitBuild ==
  /\ tree = LeafTree
  /\ status = [n \in Nodes |-> Idle]
  /\ current_child_idx = [n \in Nodes |-> 0]
  /\ success_count = [n \in Nodes |-> 0]
  /\ failure_count = [n \in Nodes |-> 0]
  /\ completed_list = [n \in Nodes |-> {}]
  /\ repeat_count = [n \in Nodes |-> 0]
  /\ try_count = [n \in Nodes |-> 0]
  /\ watch = [n \in Nodes |-> watch_channel]
  /\ clock = 0
  /\ last = [op |-> "new", o |-> <<>>, later |-> <<>>, ret |-> "none",
             pre |-> InitProg, obs |-> NoObs, halts |-> 0,
             ticks |-> 0, allSuccess |-> TRUE]
  /\ blackboards = <<>>
  /\ dropped = {}
  /\ got = NoGot
  /\ xml \in Docs
  /\ built = NotBuilt
  /\ feed = NoFeed

\* create_bt_tree_from_xml_str(factory, xml)
Build ==
  /\ ~built.done
  /\ \E first \in drain(xml) :
       LET r == create_bt_tree_from_xml_str(xml, first) IN
       /\ built' = [done |-> TRUE, res |-> r.res]
       /\ blackboards' = IF r.res.ok THEN r.w.bbs ELSE <<>>
  /\ UNCHANGED <<treeVars, dropped, got, xml, feed>>

\* The tick of a built tree reaches one of its SetBlackboard nodes.
TickSetBlackboard ==
  /\ \E node \in BuiltNodes :
       /\ node.kind = "Action" /\ node.name = "SetBlackboard"
       /\ LET r == SetBlackboard_tick_status(blackboards, dropped, node) IN
          /\ blackboards' = r.bbs
          /\ got' = [op |-> "tick", b |-> node.bb, key |-> "",
                     res |-> Some(r.status), uid |-> node.uid]
  /\ UNCHANGED <<treeVars, dropped, buildVars>>

\* data_proxy.get_input::<String>(key) by one of the built nodes.
GetInput ==
  /\ \E node \in BuiltNodes : \E key \in DOMAIN node.input_ports \cup {"value"} :
       got' = [op |-> "get_input", b |-> node.bb, key |-> key,
               res |-> get_input(blackboards, dropped, node, key),
               uid |-> node.uid]
  /\ UNCHANGED <<treeVars, blackboards, dropped, buildVars>>

\* The tick of a built tree reaches a user action A whose tick_status stores
\* a JSON number under a key of its Blackboard.
TickUserAction ==
  /\ \E node \in BuiltNodes : \E key \in Keys :
       /\ node.kind = "Action" /\ node.name = "A"
       /\ blackboards' = Blackboard_set(blackboards, node.bb, key, UserValue)
       /\ got' = [op |-> "user", b |-> node.bb, key |-> key,
                  res |-> Some(Success), uid |-> node.uid]
  /\ UNCHANGED <<treeVars, dropped, buildVars>>

NextBuild == Build \/ TickSetBlackboard \/ TickUserAction \/ GetInput

SpecBuild == InitBuild /\ [][NextBuild]_vars

----------------------------------------------------------------------------
\* The loop of create_tree_node_recursively on a text too long to write out:
\* <Sequence>, then <A/> elements, then </Sequence>.  feed holds what the
\* loop keeps: the counter, how many nodes the tree has so far, the uid of
\* the Sequence and the uid of the child added last.

InitFeed ==
  /\ tree = LeafTree
  /\ status = [n \in Nodes |-> Idle]
  /\ current_child_idx = [n \in Nodes |-> 0]
  /\ success_count = [n \in Nodes |-> 0]
  /\ failure_count = [n \in Nodes |-> 0]
  /\ completed_list = [n \in Nodes |-> {}]
  /\ repeat_count = [n \in Nodes |-> 0]
  /\ try_count = [n \in Nodes |-> 0]
  /\ watch = [n \in Nodes |-> watch_channel]
  /\ clock = 0
  /\ last = [op |-> "new", o |-> <<>>, later |-> <<>>, ret |-> "none",
             pre |-> InitProg, obs |-> NoObs, halts |-> 0,
             ticks |-> 0, allSuccess |-> TRUE]
  /\ blackboards = <<Blackboard_default>>
  /\ dropped = {}
  /\ got = NoGot
  /\ xml = <<>>
  /\ built = NotBuilt
  /\ feed = [NoFeed EXCEPT !.phase = "start"]

\* The Start event of <Sequence>, control_nodes empty: the composite arm.
FeedComposite ==
  /\ feed.phase = "start"
  /\ LET node == NewNode("Composite", "Sequence", feed.uid_generator,
                         join(<<"Sequence">>), 1, NoAttrs, <<>>)
     IN feed' = [phase |-> "open",
                 uid_generator |-> fetch_add(feed.uid_generator),
                 nodes |-> 1, root_uid |-> node.uid, last_uid |-> -1]
  /\ UNCHANGED <<treeVars, bbVars, xml, built>>

\* The next k events are Empty events of <A/>: k turns of the leaf arm, each
\* adding a child to the front control node.
FeedLeaves(k) ==
  /\ feed.phase = "open"
  /\ feed.nodes + k <= MaxFeed
  /\ LET before == (feed.uid_generator + (k - 1)) % 65536
         node == build_action("A", before, join(<<"Sequence", "A">>), 1, NoAttrs)
     IN feed' = [feed EXCEPT !.uid_generator = fetch_add(before),
                                !.nodes = @ + k,
                                !.last_uid = node[1].uid]
  /\ UNCHANGED <<treeVars, bbVars, xml, built>>

\* The End event of </Sequence>: the front control node is returned.
FeedEnd ==
  /\ feed.phase = "open"
  /\ feed' = [feed EXCEPT !.phase = "returned"]
  /\ UNCHANGED <<treeVars, bbVars, xml, built>>

NextFeed == FeedComposite \/ (\E k \in Batches : FeedLeaves(k)) \/ FeedEnd

SpecFeed == InitFeed /\ [][NextFeed]_vars

----------------------------------------------------------------------------
\* Vocabulary of the properties: everything below reads the last call.

Ticked(n) == last.obs.rets[n] # "none"
Returned(n) == last.obs.rets[n]

\* The children of n that are action leaves return what the oracle says.
AllLeafChildren(n) == \A i \in DOMAIN Children(n) : Kind(Children(n)[i]) = "Action"
Says(n, i) == last.o[Children(n)[i]]
ChildrenComplete(n) == \A i \in DOMAIN Children(n) : is_completed(Says(n, i))

\* The 1-based positions of the children of n ticked during the last call.
TickedPositions(n) == {i \in DOMAIN Children(n) : Ticked(Children(n)[i])}

\* The thresholds a Parallel works with: the port's number, or the number of
\* children when the port is absent.
Threshold(n, key) ==
  IF tree[n].ports[key] # None /\ ParseUsize(tree[n].ports[key][1]) # None
  THEN ParseUsize(tree[n].ports[key][1])[1]
  ELSE Len(Children(n))

\* C1: a tick of a Sequence whose children all return a completed status
\* returns Success iff every child returns Success; otherwise it returns
\* Failure, the children ticked are those up to the first failing child, and
\* none after it.
C1_SequenceCorrectness ==
  \A n \in Nodes :
    (/\ last.op = "tick" /\ Kind(n) = "Sequence" /\ Ticked(n)
     /\ AllLeafChildren(n) /\ ChildrenComplete(n))
    => LET failing == {i \in DOMAIN Children(n) : Says(n, i) = Failure} IN
       /\ (Returned(n) = Success) <=> (failing = {})
       /\ failing # {} =>
            /\ Returned(n) = Failure
            /\ TickedPositions(n) = {i \in DOMAIN Children(n) : \A f \in failing : i <= f}

\* C2: a tick of a Fallback whose children all return a completed status
\* returns Success at the first child that returns Success, ticking no child
\* after it, and returns Failure iff every child returns Failure.
C2_FallbackCorrectness ==
  \A n \in Nodes :
    (/\ last.op = "tick" /\ Kind(n) = "Fallback" /\ Ticked(n)
     /\ AllLeafChildren(n) /\ ChildrenComplete(n))
    => LET winning == {i \in DOMAIN Children(n) : Says(n, i) = Success} IN
       /\ (Returned(n) = Failure) <=> (winning = {})
       /\ winning = {} => TickedPositions(n) = DOMAIN Children(n)
       /\ winning # {} =>
            /\ Returned(n) = Success
            /\ TickedPositions(n) = {i \in DOMAIN Children(n) : \A w \in winning : i <= w}

\* Witness of C2: a Fallback ticked before whose first child now succeeds: the
\* second child, which would fail, is not ticked.
C2_Witness ==
  /\ last.op = "tick" /\ Kind(Root) = "Fallback" /\ Len(Children(Root)) = 2
  /\ last.pre.status[3] = Failure
  /\ last.o[2] = Success /\ last.o[3] = Failure
  /\ last.ret = Success /\ ~Ticked(3) /\ last.obs.order = <<1, 2>>

\* C3: a Parallel with thresholds k >= 1 and m >= 1 and at least one child
\* returns Success exactly on the tick during which its k-th child Success is
\* observed and Failure exactly on the tick during which its m-th child
\* Failure is observed, whatever the other children do; an absent port stands
\* for the number of children.  A tick that returns Success returns at a child
\* that has just returned Success with k successes counted, one that returns
\* Failure at a child that has just returned Failure with m failures counted,
\* and a tick in which a count reaches its threshold returns.
C3_ParallelThresholds ==
  \A n \in Nodes :
    (/\ last.op = "tick" /\ Kind(n) = "Parallel" /\ Ticked(n)
     /\ Len(Children(n)) >= 1
     /\ Threshold(n, PARALLEL_SUCCESS_COUNT) >= 1
     /\ Threshold(n, PARALLEL_FAILURE_COUNT) >= 1)
    => LET k == Threshold(n, PARALLEL_SUCCESS_COUNT)
           m == Threshold(n, PARALLEL_FAILURE_COUNT)
           LastChildReturned(s) ==
             /\ TickedPositions(n) # {}
             /\ \E i \in TickedPositions(n) :
                  /\ \A j \in TickedPositions(n) : j <= i
                  /\ Returned(Children(n)[i]) = s
       IN /\ Returned(n) = Success
               => (LastChildReturned(Success) /\ success_count[n] >= k)
          /\ Returned(n) = Failure
               => (LastChildReturned(Failure) /\ failure_count[n] >= m)
          /\ (last.pre.success_count[n] < k /\ success_count[n] >= k)
               => Returned(n) = Success
          /\ (last.pre.failure_count[n] < m /\ failure_count[n] >= m)
               => Returned(n) = Failure

\* C4: a Parallel ticks its children in declaration order, each at most once
\* per tick, and compares the thresholds after each child: the first tick of
\* <Parallel success_count="1" failure_count="2"> over A = Failure,
\* B = Failure, C = Success returns Failure and does not tick C.
C4_ParallelOrder ==
  /\ \A n \in Nodes :
       (last.op = "tick" /\ Kind(n) = "Parallel" /\ AllLeafChildren(n))
       => \A a, b \in DOMAIN last.obs.order :
            (/\ a < b
             /\ \E i \in DOMAIN Children(n) : Children(n)[i] = last.obs.order[a]
             /\ \E i \in DOMAIN Children(n) : Children(n)[i] = last.obs.order[b])
            => last.obs.order[a] < last.obs.order[b]
  /\ (/\ tree = ScenarioParallel
      /\ last.op = "tick" /\ last.pre = InitProg
      /\ last.o[2] = Failure /\ last.o[3] = Failure /\ last.o[4] = Success)
     => (last.ret = Failure /\ ~Ticked(4) /\ last.obs.order = <<1, 2, 3>>)

\* Witness of C4: the first tick of that Parallel over Failure, Failure, Success.
C4_Witness ==
  /\ tree = ScenarioParallel
  /\ last.op = "tick" /\ last.pre = InitProg
  /\ last.o[2] = Failure /\ last.o[3] = Failure /\ last.o[4] = Success
  /\ last.ret = Failure /\ failure_count[Root] = 2 /\ status[4] = Idle

\* C5: every node, of whatever kind, that is Idle when its tick() is called has
\* status Running when its kind's tick_status starts.
C5_IdleBecomesRunning ==
  \A n \in Nodes :
    (last.op = "tick" /\ last.obs.atEntry[n] = Idle) => last.obs.atBody[n] = Running

\* C6: when tick() of a node returns s, the node's status is s; for the root
\* this is the status the user reads after the call.
C6_StatusIsReturned ==
  last.op = "tick" =>
    /\ status[Root] = last.ret
    /\ \A n \in Nodes : Ticked(n) => last.obs.atReturn[n] = Returned(n)

\* C7: when the tick of a composite or decorator returns Success or Failure,
\* every child of that node is Idle at the return and no node below the root
\* is left Running.
C7_CompletedHaltsChildren ==
  last.op = "tick" =>
    /\ \A n \in Nodes :
         (Kind(n) # "Action" /\ Ticked(n) /\ is_completed(Returned(n)))
         => last.obs.kidsIdle[n]
    /\ (Kind(Root) # "Action" /\ is_completed(last.ret))
         => \A n \in Nodes \ {Root} : status[n] # Running

\* C8: after halt() the node's kind-specific state is the initial one, and
\* every child of a composite or decorator is Idle, the Running ones halted.
C8_HaltResets ==
  last.op = "halt" =>
    /\ current_child_idx[Root] = 0
    /\ success_count[Root] = 0
    /\ failure_count[Root] = 0
    /\ completed_list[Root] = {}
    /\ \A i \in DOMAIN Children(Root) :
         /\ status[Children(Root)[i]] = Idle
         /\ (last.pre.status[Children(Root)[i]] = Running
             /\ Kind(Children(Root)[i]) = "Action")
            => Children(Root)[i] \in last.obs.halted

\* C9: halt is idempotent: the second of two halt() calls in a row leaves every
\* status and every kind-specific field as the first one left them.
C9_HaltIdempotent ==
  (last.op = "halt" /\ last.halts >= 2) => Prog = last.pre

\* Witness of C9: two halts in a row on a tree that a tick has left with a
\* Running child and an advanced Sequence.
C9_Witness ==
  /\ last.op = "halt" /\ last.halts >= 2
  /\ Kind(Root) = "Sequence"
  /\ current_child_idx[Root] > 0
  /\ \E n \in Nodes : status[n] = Running

\* C10: a Sequence whose child returns Running returns Running without ticking
\* a later child, and its next tick starts at that child, ticking no earlier
\* one; <Sequence><A/><B/></Sequence> with A Running then Success and B Success
\* gives Running (B not ticked), then Success with A ticked twice and B once.
C10_Step ==
  (last.op = "tick" /\ last'.op = "tick") =>
    /\ \A n \in Nodes :
         (Kind(n) = "Sequence" /\ last.obs.rets[n] = Running /\ last'.obs.rets[n] # "none")
         => \E i \in DOMAIN Children(n) :
              /\ last.obs.rets[Children(n)[i]] = Running
              /\ \A j \in DOMAIN Children(n) :
                   /\ j > i => last.obs.rets[Children(n)[j]] = "none"
                   /\ j < i => last'.obs.rets[Children(n)[j]] = "none"
              /\ last'.obs.rets[Children(n)[i]] # "none"
    /\ (/\ tree = FlatTree("Sequence", 2, NoPorts)
        /\ last.pre = InitProg
        /\ last.o[2] = Running /\ last.o[3] = Success
        /\ last'.o[2] = Success /\ last'.o[3] = Success)
       => /\ last.ret = Running /\ last.obs.rets[3] = "none"
          /\ last'.ret = Success
          /\ TimesTicked(last.obs, 2) + TimesTicked(last'.obs, 2) = 2
          /\ TimesTicked(last.obs, 3) + TimesTicked(last'.obs, 3) = 1

\* C10, as a property of every pair of successive calls (C10_Step).
C10_SequenceResumes == [][C10_Step]_vars

\* Witness of C10: the second tick of that scenario, resumed at the Running A.
C10_Witness ==
  /\ tree = FlatTree("Sequence", 2, NoPorts)
  /\ last.op = "tick"
  /\ last.pre.status[2] = Running /\ last.pre.status[3] = Idle
  /\ last.pre.current_child_idx[Root] = 0
  /\ last.o[2] = Success /\ last.o[3] = Success
  /\ last.ret = Success /\ last.obs.order = <<1, 2, 3>>

----------------------------------------------------------------------------
\* The number an attribute of node n gives (a Repeat's num_cycles, a Retry's
\* num_attempts); None when the attribute is absent or no number.
Attribute(n, key) ==
  IF tree[n].ports[key] = None THEN None ELSE ParseUsize(tree[n].ports[key][1])

\* Node n is a decorator of the given kind around an action leaf.
DecoratesLeaf(n, kind) == Kind(n) = kind /\ Kind(Children(n)[1]) = "Action"

\* C11: a Repeat with num_cycles = n >= 1 around a node that always returns
\* Success ticks the inner node once per tick, returns Running on its first
\* n - 1 ticks and Success on its n-th, after exactly n inner ticks;
\* <Repeat num_cycles="3"><A/></Repeat> gives Running, Running, Success.
C11_RepeatCardinality ==
  (/\ last.op = "tick" /\ DecoratesLeaf(Root, "Repeat")
   /\ Attribute(Root, NUM_CYCLES) # None
   /\ Attribute(Root, NUM_CYCLES)[1] >= 1
   /\ last.allSuccess
   /\ last.ticks < MaxTicks
   /\ last.ticks <= Attribute(Root, NUM_CYCLES)[1])
  => /\ TimesTicked(last.obs, Children(Root)[1]) = 1
     /\ repeat_count[Root] = last.ticks
     /\ last.ret = IF last.ticks = Attribute(Root, NUM_CYCLES)[1]
                   THEN Success ELSE Running

\* Witness of C11: the third tick of <Repeat num_cycles="3"><A/></Repeat> with
\* A always Success returns Success.
C11_Witness ==
  /\ tree = ScenarioRepeat
  /\ last.op = "tick" /\ last.allSuccess /\ last.ticks = 3
  /\ last.pre.repeat_count[Root] = 2 /\ repeat_count[Root] = 3
  /\ last.ret = Success

\* C12: the tick of a fresh RetryUntilSuccessful with num_attempts = n around a
\* node that always returns Failure returns Failure after exactly n inner
\* ticks.
C12_RetryBound ==
  (/\ last.op = "tick" /\ DecoratesLeaf(Root, "RetryUntilSuccessful")
   /\ Attribute(Root, NUM_ATTEMPTS) # None
   /\ last.pre.try_count[Root] = 0
   /\ last.o[Children(Root)[1]] = Failure
   /\ last.later[Children(Root)[1]] = Failure)
  => /\ last.ret = Failure
     /\ TimesTicked(last.obs, Children(Root)[1]) = Attribute(Root, NUM_ATTEMPTS)[1]

\* C13: Inverter(Inverter(x)).tick() returns what x.tick() returns, for Success
\* and Failure, and Running passes through both layers.
C13_InverterInvolution ==
  \A n \in Nodes :
    (/\ last.op = "tick" /\ Ticked(n)
     /\ Kind(n) = "Inverter" /\ Kind(Children(n)[1]) = "Inverter")
    => LET x == Children(Children(n)[1])[1] IN
       /\ Ticked(x)
       /\ Returned(n) = Returned(x)

\* Witness of C13: two Inverters around an action that returns Failure.
C13_Witness ==
  /\ tree = DecoTree("Inverter", DecoTree("Inverter", LeafTree))
  /\ last.op = "tick" /\ last.o[3] = Failure
  /\ Returned(3) = Failure /\ Returned(2) = Success /\ last.ret = Failure

----------------------------------------------------------------------------
\* Vocabulary of the Blackboard properties.

\* The scopes a lookup in b can reach: b, its parent while that is alive, the
\* parent's parent, ...; as a function from the level (1 = b) to the scope.
ScopeChain(b) ==
  CHOOSE c \in UNION {[1..n -> Scopes] : n \in 1..Cardinality(Scopes)} :
    /\ c[1] = b
    /\ \A i \in DOMAIN c :
         LET up == blackboards[c[i]].parent_bb IN
         IF i + 1 \in DOMAIN c
         THEN up = Some(c[i + 1]) /\ c[i + 1] \notin dropped
         ELSE up = None \/ up[1] \in dropped

\* The key asked for at each level of the chain c when key is looked up at
\* level 1: rewritten by the internal_to_external entry of the level below,
\* where there is one.
KeyChain(c, key) ==
  CHOOSE ks \in [DOMAIN c -> {key} \cup UNION {
                     {blackboards[b].internal_to_external[k] :
                        k \in DOMAIN blackboards[b].internal_to_external} :
                     b \in Scopes}] :
    /\ ks[1] = key
    /\ \A i \in DOMAIN c :
         i + 1 \in DOMAIN c =>
           LET m == blackboards[c[i]].internal_to_external IN
           ks[i + 1] = IF ks[i] \in DOMAIN m THEN m[ks[i]] ELSE ks[i]

\* The reference lookup: the value of the lowest level that stores its key.
ReferenceLookup(b, key) ==
  LET c == ScopeChain(b)
      ks == KeyChain(c, key)
      hits == {i \in DOMAIN c : ks[i] \in DOMAIN blackboards[c[i]].storage}
  IN IF hits = {} THEN None
     ELSE LET i == CHOOSE h \in hits : \A j \in hits : h <= j
          IN Some(blackboards[c[i]].storage[ks[i]])

\* Scope c is b or lies below b.
IsWithin(c, b) == \E i \in DOMAIN ScopeChain(c) : ScopeChain(c)[i] = b

\* C14: get(k) on a Blackboard equals the reference lookup for every chain of
\* scopes: the local value if there is one, else the live parent's answer for
\* the remapped key (k itself when there is no remapping), again at each
\* level, else not found, also when the parent has been dropped.
C14_GetIsReferenceLookup ==
  /\ \A b \in Live, key \in Keys :
       Blackboard_get_entry(blackboards, dropped, b, key) = ReferenceLookup(b, key)
  /\ got.b # 0 => got.res = ReferenceLookup(got.b, got.key)

\* Witness of C14: a lookup in the innermost of three nested scopes that is
\* remapped at two levels and answered by the outermost scope.
C14_Witness ==
  /\ Cardinality(Scopes) = 3 /\ dropped = {}
  /\ blackboards[3].parent_bb = Some(2) /\ blackboards[2].parent_bb = Some(1)
  /\ got.b = 3 /\ got.key = "y" /\ got.res # None
  /\ blackboards[3].storage = HashMap_new /\ blackboards[2].storage = HashMap_new
  /\ HashMap_get(blackboards[3].internal_to_external, "y") = Some("x")
  /\ HashMap_get(blackboards[2].internal_to_external, "x") = Some("y")
  /\ HashMap_get(blackboards[1].storage, "y") = got.res

\* C15: a set(k, v) on a Blackboard changes that Blackboard's storage and
\* nothing else, and no lookup in a scope that is not at or below the written
\* one (its parent, a sibling) returns anything else than before.
C15_Step ==
  \A b \in Scopes, key \in Keys, value \in Values :
    BBSet(b, key, value) =>
      /\ \A c \in Scopes \ {b} : blackboards'[c] = blackboards[c]
      /\ blackboards'[b].parent_bb = blackboards[b].parent_bb
      /\ blackboards'[b].internal_to_external = blackboards[b].internal_to_external
      /\ \A c \in Live, k \in Keys :
           ~IsWithin(c, b) =>
             Blackboard_get_entry(blackboards', dropped', c, k)
               = Blackboard_get_entry(blackboards, dropped, c, k)

\* C15, as a property of every step (C15_Step).
C15_WritesAreLocal == [][C15_Step]_vars

\* Witness of C15: a value written in one child scope under a key that the
\* parent holds too: the parent and the sibling scope still see the parent's.
C15_Witness ==
  /\ Cardinality(Scopes) = 3 /\ dropped = {}
  /\ blackboards[2].parent_bb = Some(1) /\ blackboards[3].parent_bb = Some(1)
  /\ HashMap_get(blackboards[2].storage, "x") = Some([t |-> "string", v |-> "42"])
  /\ HashMap_get(blackboards[1].storage, "x") = Some([t |-> "number", v |-> "7"])
  /\ Blackboard_get_entry(blackboards, dropped, 1, "x") = Some([t |-> "number", v |-> "7"])
  /\ Blackboard_get_entry(blackboards, dropped, 3, "x") = Some([t |-> "number", v |-> "7"])

\* C16: a lookup in a child scope that has no local entry and no
\* internal_to_external entry for the looked-up key returns not found,
\* whatever the parent scope stores: the parent's values are visible only
\* through an explicit remapping.
C16_OnlyThroughRemapping ==
  (/\ got.b # 0
   /\ Weak_upgrade(dropped, blackboards[got.b].parent_bb) # None
   /\ got.key \notin DOMAIN blackboards[got.b].storage
   /\ got.key \notin DOMAIN blackboards[got.b].internal_to_external)
  => got.res = None

----------------------------------------------------------------------------
\* A port spec or attribute value of the form {X}, and the X it names.
Braced == {"{x}", "{y}"}
Unbraced(value) ==
  CASE value = "{x}" -> "x"
    [] value = "{y}" -> "y"
    [] OTHER -> value

\* What a read as String yields for a stored JSON value: its text when it is
\* a JSON string, nothing on a mismatch.
AsString(v) == IF v.t = "string" THEN Some(v.v) ELSE None

\* The scope a SubTree node created for the tree it references: the one its
\* inner node is bound to.
ChildScope(d) == d.children[1].bb

\* C17: for every SubTree node of a built tree, the scope created for the
\* referenced tree has the scope of the SubTree element as its parent and
\* holds exactly one remapping per non-ID attribute, internal key -> the
\* attribute's value without its braces; and when a node bound to that scope
\* reads a port whose spec is {y}, where the scope remaps y to x, its parent
\* holds x = v and the scope holds no y of its own, get_input returns v (once
\* the scope has its own y, it returns that one); the read is one as String,
\* which yields the text of a JSON string and nothing for any other value.
C17_SubTreeRemapping ==
  /\ \A d \in BuiltNodes :
       d.name = "SubTree" =>
         /\ blackboards[ChildScope(d)].parent_bb = Some(d.bb)
         /\ blackboards[ChildScope(d)].internal_to_external =
              [k \in DOMAIN d.input_ports \ {"ID"} |-> Unbraced(d.input_ports[k])]
  /\ \A d \in BuiltNodes : \A n \in BuiltNodes :
       ( /\ d.name = "SubTree"
         /\ n.bb = ChildScope(d)
         /\ got.op = "get_input"
         /\ got.uid = n.uid
         /\ got.key \in DOMAIN n.input_ports
         /\ n.input_ports[got.key] \in Braced ) =>
         LET y == Unbraced(n.input_ports[got.key])
             child == blackboards[n.bb]
             parent == blackboards[d.bb]
         IN /\ y \in DOMAIN child.storage => got.res = AsString(child.storage[y])
            /\ ( /\ y \notin DOMAIN child.storage
                 /\ y \in DOMAIN child.internal_to_external
                 /\ child.internal_to_external[y] \in DOMAIN parent.storage ) =>
                 got.res = AsString(parent.storage[child.internal_to_external[y]])

\* A node of a referenced tree has read the port {y} and got "42", the value
\* the main tree stored under x, through the remapping y -> x.
C17_Witness ==
  \E d \in BuiltNodes : \E n \in BuiltNodes :
    /\ d.name = "SubTree" /\ d.input_ports["ID"] = "child"
    /\ "y" \in DOMAIN d.input_ports /\ d.input_ports["y"] = "{x}"
    /\ n.bb = ChildScope(d) /\ n.bb # d.bb
    /\ got.op = "get_input" /\ got.uid = n.uid /\ got.key = "value"
    /\ "value" \in DOMAIN n.input_ports /\ n.input_ports["value"] = "{y}"
    /\ "y" \notin DOMAIN blackboards[n.bb].storage
    /\ HashMap_get(blackboards[d.bb].storage, "x") = Some(json("42"))
    /\ got.res = Some("42")

----------------------------------------------------------------------------
RECURSIVE NodeCount(_)
NodeCount(node) ==
  1 + SumOver([i \in DOMAIN node.children |-> NodeCount(node.children[i])],
              DOMAIN node.children)

\* C18: the nodes of a built tree have pairwise distinct uids: a tree built
\* from a text has as many uids as nodes, and in a tree fed element by
\* element the child added last does not have the uid of the root.
C18_DistinctUids ==
  /\ (built.done /\ built.res.ok /\ built.res.node # None) =>
       Cardinality({n.uid : n \in BuiltNodes}) = NodeCount(built.res.node[1])
  /\ (feed.phase = "returned" /\ feed.nodes > 1) => feed.last_uid # feed.root_uid

----------------------------------------------------------------------------
\* The XML text as a document: which elements enclose the element at
\* position k of a text, outermost first.
RECURSIVE NamesAt(_, _)
NamesAt(text, S) ==
  IF S = {} THEN <<>>
  ELSE LET j == CHOOSE i \in S : \A k \in S : i <= k
       IN <<text[j].name>> \o NamesAt(text, S \ {j})

Enclosing(text, k) ==
  NamesAt(text, {j \in 1..(k - 1) :
                   text[j].type = "Start" /\ read_to_end(text, j) > k})

\* The body of the BehaviorTree element of the text whose ID is id.
TreeBody(id) ==
  LET at == {j \in DOMAIN xml :
               /\ xml[j].type = "Start" /\ xml[j].name = "BehaviorTree"
               /\ get_key(xml[j].attrs, "ID") = Some(id)}
  IN IF at = {} THEN <<>>
     ELSE LET j == CHOOSE i \in at : TRUE
          IN SubSeq(xml, j + 1, read_to_end(xml, j) - 1)

\* The element names for which the factory has a constructor.
Registered == composite_types \cup decorator_types \cup {"A", "SetBlackboard"}

\* The elements of a text that stand for nodes, in document order, each with
\* the '/'-joined element names from the root element of the main tree down
\* to it; the tree a SubTree element references follows the SubTree element,
\* under its path.
RECURSIVE ElementPaths(_, _, _, _)
ElementPaths(text, k, prefix, depth) ==
  IF k > Len(text) \/ depth > MaxBuildDepth THEN <<>>
  ELSE
    LET e == text[k]
        path == prefix \o Enclosing(text, k) \o <<e.name>>
        here == IF e.type # "End" /\ e.name \in Registered
                THEN <<[name |-> e.name, full_path |-> join(path)]>> ELSE <<>>
        inside == IF e.type # "End" /\ e.name = "SubTree" /\ "ID" \in DOMAIN e.attrs
                  THEN ElementPaths(TreeBody(e.attrs["ID"]), 1, path, depth + 1)
                  ELSE <<>>
    IN here \o inside \o ElementPaths(text, k + 1, prefix, depth)

\* The nodes of a built tree, parents before children, children in order.
RECURSIVE PreOrder(_)
RECURSIVE PreOrderAll(_)
PreOrderAll(nodes) ==
  IF nodes = <<>> THEN <<>>
  ELSE PreOrder(Head(nodes)) \o PreOrderAll(Tail(nodes))
PreOrder(node) ==
  <<[name |-> node.name, full_path |-> node.full_path]>>
    \o PreOrderAll(node.children)

\* The trees that may have been built as the main tree.
MainTreeIds ==
  LET given == {xml[j].attrs["main_tree_to_execute"] :
                  j \in {i \in DOMAIN xml :
                           /\ xml[i].name = "root" /\ xml[i].type = "Start"
                           /\ "main_tree_to_execute" \in DOMAIN xml[i].attrs}}
  IN IF given = {} THEN TreeIds ELSE given

\* C19: the nodes of a built tree are, in document order, the elements of the
\* main tree that stand for nodes (referenced trees expanded in place), and
\* the full_path of each is the '/'-joined names of the elements from the
\* main tree's root element down to its own.
C19_FullPathIsElementPath ==
  (built.done /\ built.res.ok /\ built.res.node # None) =>
    \E id \in MainTreeIds :
      LET nodes == PreOrder(built.res.node[1])
          elements == ElementPaths(TreeBody(id), 1, <<>>, 0)
      IN /\ Len(nodes) <= Len(elements)
         /\ \A i \in DOMAIN nodes : nodes[i] = elements[i]

----------------------------------------------------------------------------
\* The BehaviorTree elements of the text, and the IDs they define.
BehaviorTreeElements ==
  {j \in DOMAIN xml : xml[j].name = "BehaviorTree" /\ xml[j].type # "End"}
DefinedIds ==
  {xml[j].attrs["ID"] : j \in {i \in BehaviorTreeElements : "ID" \in DOMAIN xml[i].attrs}}

\* The attributes of the SubTree elements a build of text comes to: those of
\* the text and those of the trees they reference.
RECURSIVE SubTreesReached(_, _)
SubTreesReached(text, depth) ==
  IF depth > MaxBuildDepth THEN {}
  ELSE
    LET here == {text[k].attrs :
                   k \in {i \in DOMAIN text :
                            text[i].name = "SubTree" /\ text[i].type # "End"}}
    IN here \cup UNION {SubTreesReached(TreeBody(a["ID"]), depth + 1) :
                          a \in {b \in here : "ID" \in DOMAIN b}}

\* A build with the tree id as its main tree comes to a SubTree element
\* without ID, or to one whose ID no BehaviorTree element defines.
ReachesBadSubTree(id) ==
  \E a \in SubTreesReached(TreeBody(id), 0) :
    "ID" \notin DOMAIN a \/ a["ID"] \notin DefinedIds

\* The trees a build of the text may take as its main tree.
MainCandidates ==
  LET given == {xml[j].attrs["main_tree_to_execute"] :
                  j \in {i \in DOMAIN xml :
                           /\ xml[i].name = "root" /\ xml[i].type = "Start"
                           /\ "main_tree_to_execute" \in DOMAIN xml[i].attrs}}
  IN IF given = {} THEN DefinedIds ELSE given

\* C20: a build returns an error and no tree when the text has a
\* BehaviorTree element without ID, and when, whichever tree is the main one,
\* the build comes to a SubTree element without ID or with an ID that no
\* BehaviorTree element defines.
C20_SchemaErrors ==
  ( /\ built.done
    /\ \/ \E j \in BehaviorTreeElements : "ID" \notin DOMAIN xml[j].attrs
       \/ \A id \in MainCandidates : ReachesBadSubTree(id) ) =>
    (~built.res.ok /\ built.res.node = None)

----------------------------------------------------------------------------
\* The body of the tree id holds an element whose name no registry knows.
HasUnregistered(id) ==
  \E k \in DOMAIN TreeBody(id) :
    TreeBody(id)[k].type # "End" /\ TreeBody(id)[k].name \notin Registered

\* C21: when the body of the main tree (whichever tree that is) holds an
\* element whose name matches no registered composite, decorator or action
\* pattern, the build returns an error and no tree.
C21_RegistryError ==
  ( /\ built.done
    /\ MainCandidates # {}
    /\ \A id \in MainCandidates : HasUnregistered(id) ) =>
    (~built.res.ok /\ built.res.node = None)

----------------------------------------------------------------------------
\* The string a port of a built node resolves to: the literal as written,
\* or, for a port written {k}, the value the reference lookup finds for k
\* from the node's scope when that value is a JSON string; nothing when the
\* port is absent, the key is not found or the value is not a string.
Resolved(n, port) ==
  IF port \notin DOMAIN n.input_ports THEN None
  ELSE LET written == n.input_ports[port] IN
       IF written \in Braced
       THEN LET v == ReferenceLookup(n.bb, Unbraced(written))
            IN IF v = None THEN None ELSE AsString(v[1])
       ELSE Some(written)

\* C22: a tick of a SetBlackboard node, when both ports resolve to strings,
\* returns Success and changes the Blackboards in one place only: the storage
\* of the node's own scope maps the resolved output_key to the JSON string of
\* the resolved value; when a port is absent or does not resolve to a string,
\* the tick returns Failure and every Blackboard is as before.
C22_Step ==
  got'.op = "tick" =>
    \A n \in BuiltNodes :
      n.uid = got'.uid =>
        LET key == Resolved(n, "output_key")
            value == Resolved(n, "value")
        IN IF key # None /\ value # None
           THEN /\ got'.res = Some(Success)
                /\ blackboards' =
                     [blackboards EXCEPT
                        ![n.bb].storage =
                          [k \in DOMAIN @ \cup {key[1]} |->
                             IF k = key[1] THEN [t |-> "string", v |-> value[1]]
                             ELSE @[k]]]
           ELSE /\ got'.res = Some(Failure)
                /\ blackboards' = blackboards
C22_SetBlackboardTick == [][C22_Step]_vars

\* A SetBlackboard node of a referenced tree has been ticked with its value
\* port written {y}: the tick returned Success and the node's own scope, not
\* the main one, holds z = "42", the value found through the remapping.
C22_Witness ==
  \E n \in BuiltNodes :
    /\ got.op = "tick" /\ got.uid = n.uid /\ got.res = Some(Success)
    /\ n.bb # 1
    /\ "value" \in DOMAIN n.input_ports /\ n.input_ports["value"] = "{y}"
    /\ HashMap_get(blackboards[n.bb].storage, "z") = Some(json("42"))
    /\ "z" \notin DOMAIN blackboards[1].storage

----------------------------------------------------------------------------
\* C23: a call set_status(new) on a node sends a notification on the node's
\* channel exactly when new differs from the node's status and the channel
\* has a receiver; the notification sent carries the node's uid, the status
\* before the call as prev_status and new as new_status; nothing else about
\* the channel changes; and the node's status is new after the call, sent or
\* not.
C23_Step ==
  last'.op = "set_status" =>
    LET n == last'.o[1]
        new == last'.o[2]
        sent == watch'[n].version # watch[n].version
    IN /\ sent <=> (new # status[n] /\ watch[n].receiver_count > 0)
       /\ sent =>
            /\ watch'[n].version = watch[n].version + 1
            /\ watch'[n].value.uid = Uid(n)
            /\ watch'[n].value.prev_status = status[n]
            /\ watch'[n].value.new_status = new
       /\ ~sent => watch'[n] = watch[n]
       /\ watch'[n].receiver_count = watch[n].receiver_count
       /\ status'[n] = new
C23_SetStatusNotifies == [][C23_Step]_vars

\* set_status(Success) on the inner node (uid 1), observed and Running
\* before, has sent its second notification: from Running to Success.
C23_Witness ==
  /\ last.op = "set_status" /\ last.o = <<2, Success>>
  /\ watch[2].receiver_count > 0
  /\ watch[2].version = 2
  /\ watch[2].value.uid = 1
  /\ watch[2].value.prev_status = Running
  /\ watch[2].value.new_status = Success
  /\ status[2] = Success

\* C24: on every node's channel, a notification never carries an earlier
\* timestamp than the notification sent before it.
C24_TimestampsNonDecreasing ==
  \A n \in Nodes :
    watch[n].version >= 2 => watch[n].earlier_ts <= watch[n].value.ts

----------------------------------------------------------------------------
\* The fields of the nodes with every channel as it is without observers.
Unobserved == [Prog EXCEPT !.watch = [n \in Nodes |-> watch_channel]]

\* The fields of a call's outcome other than the channels.
Semantics(p) ==
  <<p.status, p.current_child_idx, p.success_count, p.failure_count,
    p.completed_list, p.repeat_count, p.try_count>>

\* C25: every call on the root of a tree with observers returns the status
\* and leaves the node fields that the same call, with the same action
\* results, returns and leaves on the copy of the tree that has no observer
\* and is otherwise in the same state; subscribing and dropping a receiver
\* change no node field; no step changes a Blackboard.  (Two copies that
\* start alike and take the same calls therefore stay alike, call by call.)
C25_Step ==
  /\ last'.op = "tick" =>
       LET r == tick(Root, [Begin(Unobserved) EXCEPT !.later = last'.later], last'.o)
       IN /\ last'.ret = r.res
          /\ Semantics(Prog)' = Semantics(r.st.p)
  /\ last'.op = "halt" => Semantics(Prog)' = Semantics(halt(Root, Begin(Unobserved)).p)
  /\ last'.op = "reset_status" =>
       Semantics(Prog)' = Semantics(reset_status(Root, Begin(Unobserved)).p)
  /\ last'.op \in {"add_observer", "drop_observer"} =>
       Semantics(Prog)' = Semantics(Prog)
  /\ blackboards' = blackboards
C25_ObserversDoNotInterfere == [][C25_Step]_vars

\* The observed leaf of an unobserved Inverter has been ticked from Running
\* to Success: its channel has carried that notification, its status is
\* Success, and the Inverter returned Failure.
C25_Witness ==
  /\ tree = DecoTree("Inverter", LeafTree)
  /\ last.op = "tick" /\ last.ret = Failure
  /\ watch[2].receiver_count > 0 /\ watch[2].version > 0
  /\ watch[2].value.prev_status = Running
  /\ watch[2].value.new_status = Success
  /\ watch[1].receiver_count = 0
  /\ status[2] = Success

----------------------------------------------------------------------------
\* C26: in a tree whose action leaves return Success from every tick, ticking
\* the root until the status returned is not Running comes to an end. With
\* such leaves a tick is a function of the node fields alone, so the loop comes
\* to an end only if every tick of it that returns Running has changed some
\* node field: a tick that returns Running with every field as it was is
\* followed by the same tick for ever.
C26_RunTerminates ==
  (last.op = "tick" /\ last.ret = Running) => Prog # last.pre

----------------------------------------------------------------------------
\* The body of the tree id is the one self-closing element <Sequence/>.
EmptySequenceBody(id) == TreeBody(id) = SelfClosing("Sequence", NoAttrs)

\* C27: when the body of the main tree (whichever tree that is) is the
\* self-closing element <Sequence/>, the build returns a tree whose root is a
\* Sequence node with no children (the node whose first tick returns Success).
C27_EmptySequenceBuilds ==
  ( /\ built.done
    /\ MainCandidates # {}
    /\ \A id \in MainCandidates : EmptySequenceBody(id) ) =>
    ( /\ built.res.ok
      /\ built.res.node # None
      /\ built.res.node[1].kind = "Composite"
      /\ built.res.node[1].name = "Sequence"
      /\ built.res.node[1].children = <<>> )

----------------------------------------------------------------------------
\* C28: the first tick of a RetryUntilSuccessful with num_attempts = 0 returns
\* Failure and does not tick the inner node.
C28_RetryZeroAttempts ==
  (/\ last.op = "tick" /\ last.ticks = 1
   /\ DecoratesLeaf(Root, "RetryUntilSuccessful")
   /\ Attribute(Root, NUM_ATTEMPTS) = Some(0))
  => /\ last.ret = Failure
     /\ TimesTicked(last.obs, Children(Root)[1]) = 0

----------------------------------------------------------------------------
\* C29: a Repeat without a num_cycles attribute runs one cycle: a tick of it
\* that has counted no cycle yet ticks the inner node once and returns what
\* the inner node returned, so the inner node's completed status is returned
\* by the first tick in which the inner node completes.
C29_RepeatDefaultCycles ==
  (/\ last.op = "tick"
   /\ DecoratesLeaf(Root, "Repeat")
   /\ tree[Root].ports[NUM_CYCLES] = None
   /\ last.pre.repeat_count[Root] = 0)
  => /\ TimesTicked(last.obs, Children(Root)[1]) = 1
     /\ last.ret = last.o[Children(Root)[1]]

----------------------------------------------------------------------------
\* C30: in a tree that a successful build returns, every composite node has
\* at least one child and every decorator node has exactly one.
C30_ChildCounts ==
  \A node \in BuiltNodes :
    /\ node.kind = "Composite" => Len(node.children) >= 1
    /\ node.kind = "Decorator" => Len(node.children) = 1

----------------------------------------------------------------------------
\* A Fallback that returned Running from one tick, child i being the one that
\* returned Running, is ticked again by the next call: that tick starts at
\* child i, the children before i are not ticked.
C31_Step ==
  (last.op = "tick" /\ last'.op = "tick") =>
    \A n \in Nodes :
      (Kind(n) = "Fallback" /\ last.obs.rets[n] = Running /\ last'.obs.rets[n] # "none")
      => \E i \in DOMAIN Children(n) :
           /\ last.obs.rets[Children(n)[i]] = Running
           /\ \A j \in DOMAIN Children(n) :
                /\ j < i => last.obs.rets[Children(n)[j]] = Failure
                /\ j < i => last'.obs.rets[Children(n)[j]] = "none"
           /\ last'.obs.rets[Children(n)[i]] # "none"

\* C31: a Fallback whose child i returned Running after the children before
\* it returned Failure returns Running, and its next tick starts at child i:
\* the children that failed are not ticked again.
C31_FallbackResumes == [][C31_Step]_vars

----------------------------------------------------------------------------
\* The status a ForceSuccess or ForceFailure node gives for a completed inner
\* status.
Forced(n) == IF Kind(n) = "ForceSuccess" THEN Success ELSE Failure

\* C32: a ForceSuccess (ForceFailure) that a tick reaches ticks its inner node
\* once, returns Running exactly when the inner node returned Running, and
\* returns Success (Failure) when the inner node returned Success or Failure.
C32_ForceDecorators ==
  \A n \in Nodes :
    (/\ last.op = "tick"
     /\ Kind(n) \in {"ForceSuccess", "ForceFailure"}
     /\ last.obs.rets[n] # "none")
    => LET inner == Children(n)[1] IN
       /\ TimesTicked(last.obs, inner) = 1
       /\ (last.obs.rets[n] = Running) <=> (last.obs.rets[inner] = Running)
       /\ is_completed(last.obs.rets[inner]) => last.obs.rets[n] = Forced(n)

\* Witness of C32: in <ForceSuccess><ForceFailure><A/></ForceFailure>
\* </ForceSuccess> a tick in which A returned Success has the ForceFailure
\* return Failure and the ForceSuccess return Success.
C32_Witness ==
  /\ tree = DecoTree("ForceSuccess", DecoTree("ForceFailure", LeafTree))
  /\ last.op = "tick" /\ last.ret = Success
  /\ last.obs.rets[3] = Success
  /\ last.obs.rets[2] = Failure
  /\ last.obs.rets[1] = Success
  /\ last.obs.order = <<1, 2, 3>>

----------------------------------------------------------------------------
\* C33: a Repeat with num_cycles = n around a Sequence of actions that always
\* return Success ticks every action of the Sequence once in each of its
\* first n ticks (n times in all), the Sequence's current_child_idx being back
\* at 0 after each tick in which the Sequence completed.
C33_SequenceReusable ==
  (/\ last.op = "tick"
   /\ Kind(Root) = "Repeat" /\ Kind(Children(Root)[1]) = "Sequence"
   /\ Attribute(Root, NUM_CYCLES) # None
   /\ Attribute(Root, NUM_CYCLES)[1] >= 1
   /\ last.allSuccess
   /\ last.ticks < MaxTicks
   /\ last.ticks <= Attribute(Root, NUM_CYCLES)[1])
  => LET seq == Children(Root)[1] IN
     /\ \A i \in DOMAIN Children(seq) :
          TimesTicked(last.obs, Children(seq)[i]) = 1
     /\ current_child_idx[seq] = 0

----------------------------------------------------------------------------
\* The SubTree nodes of the built tree.
SubTreeNodes == {node \in BuiltNodes : node.kind = "Decorator" /\ node.name = "SubTree"}

\* C34: in a built tree the root is bound to the root Blackboard; the
\* children of every composite and the inner node of every decorator other
\* than SubTree are bound to the Blackboard of their parent node; the inner
\* node of a SubTree is bound to another Blackboard, whose parent is the
\* Blackboard the SubTree node is bound to, which no other SubTree's inner
\* node is bound to, and which is empty until a node is ticked.
C34_ScopesFollowSubTrees ==
  (built.done /\ built.res.ok /\ built.res.node # None) =>
    /\ built.res.node[1].bb = 1
    /\ blackboards[1].parent_bb = None
    /\ \A node \in BuiltNodes \ SubTreeNodes :
         \A i \in DOMAIN node.children : node.children[i].bb = node.bb
    /\ \A node \in SubTreeNodes :
         LET inner == node.children[1] IN
         /\ inner.bb # node.bb
         /\ blackboards[inner.bb].parent_bb = Some(node.bb)
         /\ got = NoGot => blackboards[inner.bb].storage = HashMap_new
         /\ \A other \in SubTreeNodes \ {node} : other.children[1].bb # inner.bb

\* Witness of C34: a Sequence with two SubTree elements of the same ID has
\* been built; the two inner nodes are bound to two Blackboards whose parent
\* is the root Blackboard, to which the Sequence and both SubTree nodes are
\* bound.
C34_Witness ==
  /\ built.done /\ built.res.ok /\ built.res.node # None
  /\ LET root == built.res.node[1] IN
     /\ root.name = "Sequence" /\ root.bb = 1 /\ Len(root.children) = 2
     /\ \A i \in 1..2 :
          /\ root.children[i].name = "SubTree"
          /\ root.children[i].input_ports = Ref("child")
          /\ root.children[i].bb = 1
     /\ root.children[1].children[1].bb = 2
     /\ root.children[2].children[1].bb = 3
     /\ blackboards[2].parent_bb = Some(1)
     /\ blackboards[3].parent_bb = Some(1)

----------------------------------------------------------------------------
\* The positions of the direct child elements of the element that starts at
\* position k of a text, in document order.
DirectChildren(text, k) ==
  IF text[k].type # "Start" THEN {}
  ELSE {j \in (k + 1)..(read_to_end(text, k) - 1) :
          /\ text[j].type # "End"
          /\ \A m \in (k + 1)..(j - 1) :
               text[m].type = "Start" => read_to_end(text, m) < j}

\* The positions of the outermost elements of a text.
Outermost(text) ==
  {j \in DOMAIN text :
     /\ text[j].type # "End"
     /\ \A m \in 1..(j - 1) : text[m].type = "Start" => read_to_end(text, m) < j}

\* The nesting of the element at position k of a text, as a tree of element
\* names: under a composite its direct child elements that stand for nodes,
\* in order; under a decorator the first of them; under a SubTree the
\* outermost element of the tree it references.
RECURSIVE Mirror(_, _, _)
RECURSIVE MirrorAll(_, _, _)
MirrorAll(text, S, depth) ==
  IF S = {} THEN <<>>
  ELSE LET j == CHOOSE i \in S : \A k \in S : i <= k
       IN <<Mirror(text, j, depth)>> \o MirrorAll(text, S \ {j}, depth)
Mirror(text, k, depth) ==
  LET e == text[k]
      inside == {j \in DirectChildren(text, k) : text[j].name \in Registered}
      body == IF "ID" \in DOMAIN e.attrs THEN TreeBody(e.attrs["ID"]) ELSE <<>>
      kids ==
        IF depth > MaxBuildDepth THEN <<>>
        ELSE IF e.name \in composite_types THEN MirrorAll(text, inside, depth)
        ELSE IF e.name = "SubTree"
        THEN IF Outermost(body) = {} THEN <<>>
             ELSE <<Mirror(body, CHOOSE i \in Outermost(body) :
                                   \A j \in Outermost(body) : i <= j, depth + 1)>>
        ELSE IF e.name \in decorator_types /\ inside # {}
        THEN <<Mirror(text, CHOOSE i \in inside : \A j \in inside : i <= j, depth)>>
        ELSE <<>>
  IN [name |-> e.name, children |-> kids]

\* The nesting of a built tree, as a tree of node names.
RECURSIVE Shape(_)
RECURSIVE ShapeAll(_)
ShapeAll(nodes) ==
  IF nodes = <<>> THEN <<>>
  ELSE <<Shape(Head(nodes))>> \o ShapeAll(Tail(nodes))
Shape(node) == [name |-> node.name, children |-> ShapeAll(node.children)]

\* The tree id has a body whose first element is its one outermost element
\* and stands for a node.
HasOutermost(id) ==
  /\ TreeBody(id) # <<>>
  /\ Outermost(TreeBody(id)) = {1}
  /\ TreeBody(id)[1].name \in Registered

\* C35: a build that returns no error returns a tree with the nesting of the
\* main tree's elements: the node returned is the node of the outermost
\* element, and the children of every composite's node are the nodes of its
\* direct child elements, in declaration order.
C35_TreeMirrorsXml ==
  (/\ built.done /\ built.res.ok
   /\ \A id \in MainCandidates : HasOutermost(id)
   /\ MainCandidates # {}) =>
    /\ built.res.node # None
    /\ \E id \in MainCandidates :
         Shape(built.res.node[1]) = Mirror(TreeBody(id), 1, 0)

----------------------------------------------------------------------------
\* C36: halt() on a root whose whole tree is Idle changes no status and no
\* kind-specific field, sends no notification on any channel, and runs no
\* action implementation's halt hook.
C36_HaltOfIdleIsNoOp ==
  (last.op = "halt" /\ \A n \in Nodes : last.pre.status[n] = Idle) =>
    /\ Prog = last.pre
    /\ \A n \in Nodes : watch[n].version = last.pre.watch[n].version
    /\ last.obs.halted = {}

----------------------------------------------------------------------------
\* C37: a Parallel whose children all complete comes to return Success or
\* Failure when it is ticked again and again. A Parallel ticks only the
\* children that are not in its completed set, so it comes to an end only if
\* every tick of it that returns Running leaves a child outside that set: with
\* all children in the set, every further tick ticks no child and returns
\* Running.
C37_ParallelCompletes ==
  \A n \in Nodes :
    (last.op = "tick" /\ Kind(n) = "Parallel" /\ last.obs.rets[n] = Running)
    => \E i \in DOMAIN Children(n) : (i - 1) \notin completed_list[n]

----------------------------------------------------------------------------
\* C38: in every state of a Parallel, success_count + failure_count is the
\* size of its completed set and at most the number of its children, and a
\* tick does not tick a child whose index was in the completed set before it.
C38_ParallelCounters ==
  \A n \in Nodes :
    Kind(n) = "Parallel" =>
      /\ success_count[n] + failure_count[n] = Cardinality(completed_list[n])
      /\ Cardinality(completed_list[n]) <= Len(Children(n))
      /\ completed_list[n] \subseteq {i - 1 : i \in DOMAIN Children(n)}
      /\ last.op = "tick" =>
           \A i \in DOMAIN Children(n) :
             (i - 1) \in last.pre.completed_list[n]
             => TimesTicked(last.obs, Children(n)[i]) = 0

\* Witness of C38: the second tick of <Parallel><A/><B/></Parallel>, A having
\* returned Success in the first: A is not ticked again, B returns Success,
\* both are in the completed set and success_count is 2.
C38_Witness ==
  /\ tree = FlatTree("Parallel", 2, NoPorts)
  /\ last.op = "tick" /\ last.ticks = 2
  /\ last.pre.completed_list[Root] = {0}
  /\ last.obs.order = <<1, 3>>
  /\ completed_list[Root] = {0, 1}
  /\ success_count[Root] = 2 /\ failure_count[Root] = 0
  /\ last.ret = Success

----------------------------------------------------------------------------
\* C39: every build comes to an end by returning a tree or an error, also
\* when BehaviorTree elements reference each other or themselves through
\* SubTree elements; the parent of every Blackboard of a built tree was
\* created before it, so no chain of parents comes back to where it began.
C39_BuildTerminates ==
  built.done =>
    /\ built.res.msg # "stack overflow"
    /\ \A b \in DOMAIN blackboards :
         \/ blackboards[b].parent_bb = None
         \/ blackboards[b].parent_bb[1] < b

----------------------------------------------------------------------------
\* C40: the build of a text is deterministic: what one build of the text
\* returned (the tree with its shape, node kinds, uids and paths, or the
\* error) is what every build of the same text returns, whichever entry the
\* drain iterator of the tree ranges yields first.
C40_BuildDeterministic ==
  built.done =>
    \A first \in drain(xml) :
      create_bt_tree_from_xml_str(xml, first).res = built.res

=============================================================================
